---- MODULE Spec2Model ----
(***************************************************************************)
(* A model of src/src/H5.c: the library's lifecycle (H5_init_library,      *)
(* H5_term_library), the 'atclose' registry, the version check and the     *)
(* debug-mask parser.                                                      *)
(*                                                                         *)
(* A call in progress is a frame of `stack` (the C call stack): a frame of *)
(* H5_init_library steps through the subsystem inits, a frame of           *)
(* H5_term_library through the atclose callbacks and the term_package      *)
(* sweeps, a frame "cb" is a user callback running.                        *)
(***************************************************************************)
EXTENDS Integers, Sequences, FiniteSets, TLC

(***************************************************************************)
(* Bounds of the model.                                                    *)
(***************************************************************************)
\* Entries the atclose registry may hold at once.
MaxReg == 2
\* Initialize/terminate cycles of one process.
MaxCycles == 2
\* Library calls one user callback makes before it returns.
MaxCbCalls == 1
\* Where the counter of the runs of the version check stops counting.
MaxCount == 2
\* Threads of the application.
NThreads == 2
\* Terminations in progress below which a callback may call H5close.
MaxNest == 1

(***************************************************************************)
(* Values.                                                                 *)
(***************************************************************************)
NULL == "NULL"
SUCCEED == 0
FAIL == -1

\* The version numbers compiled into the library (H5_VERS_MAJOR,
\* H5_VERS_MINOR; the release number is a build parameter, see build).
H5_VERS == [major |-> 1, minor |-> 4]

\* Library incompatible release versions.
VERS_RELEASE_EXCEPTIONS == {0}

\* The atclose callbacks and contexts an application registers.
Funcs == {"f1", "f2"}
CtxOf(f) == IF f = "f1" THEN "x1" ELSE "x2"

\* A variant that initializes the property lists' second phase before the
\* datatypes.
InitOrderSwapped ==
  <<"E", "FD", "VL_phase1", "P_phase1", "L", "O", "FS", "S", "P_phase2",
    "T", "VL_phase2">>

\* The subsystem inits of H5_init_library, in the order of the code.
InitOrder ==
  <<"E", "FD", "VL_phase1", "P_phase1", "L", "O", "FS", "S", "T",
    "P_phase2", "VL_phase2">>

\* The term_package calls of one sweep, in the order of the code. test: an
\* `if (pending == 0)` stands right before the call; skip: where control
\* goes when that test fails (the statement after the if's body).
Hooks ==
  << [name |-> "ES",    test |-> FALSE, skip |-> 0],
     [name |-> "L",     test |-> TRUE,  skip |-> 9],
     [name |-> "A_top", test |-> FALSE, skip |-> 0],
     [name |-> "D_top", test |-> FALSE, skip |-> 0],
     [name |-> "G_top", test |-> FALSE, skip |-> 0],
     [name |-> "M_top", test |-> FALSE, skip |-> 0],
     [name |-> "S_top", test |-> FALSE, skip |-> 0],
     [name |-> "T_top", test |-> FALSE, skip |-> 0],
     [name |-> "F",     test |-> TRUE,  skip |-> 10],
     [name |-> "P",     test |-> TRUE,  skip |-> 11],
     [name |-> "A",     test |-> TRUE,  skip |-> 17],
     [name |-> "D",     test |-> FALSE, skip |-> 0],
     [name |-> "G",     test |-> FALSE, skip |-> 0],
     [name |-> "M",     test |-> FALSE, skip |-> 0],
     [name |-> "S",     test |-> FALSE, skip |-> 0],
     [name |-> "T",     test |-> FALSE, skip |-> 0],
     [name |-> "AC",    test |-> TRUE,  skip |-> 27],
     [name |-> "Z",     test |-> FALSE, skip |-> 0],
     [name |-> "FD",    test |-> FALSE, skip |-> 0],
     [name |-> "VL",    test |-> FALSE, skip |-> 0],
     [name |-> "PL",    test |-> TRUE,  skip |-> 22],
     [name |-> "E",     test |-> TRUE,  skip |-> 23],
     [name |-> "I",     test |-> TRUE,  skip |-> 24],
     [name |-> "SL",    test |-> TRUE,  skip |-> 25],
     [name |-> "FL",    test |-> TRUE,  skip |-> 26],
     [name |-> "CX",    test |-> TRUE,  skip |-> 27] >>

NHooks == Len(Hooks)
HookNames == {Hooks[i].name : i \in 1..NHooks}

\* The retry limit of the sweep loop: `while (pending && ntries++ < 100)`.
MaxTries == 100

\* What a term_package may return: 0 when quiescent, positive otherwise.
TermRets == {0, 1}

(***************************************************************************)
(* Strings are sequences of one-character strings; NULL is no string.      *)
(***************************************************************************)
Digits == <<"0", "1", "2", "3", "4", "5", "6", "7", "8", "9",
            "a", "b", "c", "d", "e", "f">>
Alpha ==
  {"a", "b", "c", "d", "e", "f", "g", "h", "i", "j", "k", "l", "m", "n",
   "o", "p", "q", "r", "s", "t", "u", "v", "w", "x", "y", "z"}
isalpha(c) == c \in Alpha
isdigit(c) == \E i \in 1..10 : Digits[i] = c
DigitVal(c) == (CHOOSE i \in 1..Len(Digits) : Digits[i] = c) - 1
IsDigitOf(c, base) == \E i \in 1..base : Digits[i] = c
Min(a, b) == IF a < b THEN a ELSE b

RECURSIVE ParseDigits(_, _, _, _)
\* The digits of `base` at the front of s: their value and their number.
ParseDigits(s, base, acc, n) ==
  IF s # <<>> /\ IsDigitOf(s[1], base)
  THEN ParseDigits(Tail(s), base, acc * base + DigitVal(s[1]), n + 1)
  ELSE [val |-> acc, len |-> n]

\* strtol(s, &rest, 0) of a string that starts with a digit: base 16 after
\* "0x", base 8 after "0", base 10 otherwise. val: the number, len: the
\* characters consumed. (The strings of the model are short: no overflow.)
strtol(s) ==
  IF Len(s) >= 3 /\ s[1] = "0" /\ s[2] = "x" /\ IsDigitOf(s[3], 16)
  THEN LET r == ParseDigits(SubSeq(s, 3, Len(s)), 16, 0, 0)
       IN  [val |-> r.val, len |-> r.len + 2]
  ELSE IF s[1] = "0" THEN ParseDigits(s, 8, 0, 0)
  ELSE ParseDigits(s, 10, 0, 0)

RECURSIVE AlphaRun(_)
\* The number of alphabetic characters at the front of s.
AlphaRun(s) == IF s # <<>> /\ isalpha(s[1]) THEN 1 + AlphaRun(Tail(s)) ELSE 0

VARIABLES
  H5_libinit_g,           \* library initialized
  H5_libterm_g,           \* library is being shut down
  H5_dont_atexit_g,       \* no (more) atexit registration
  H5_atclose_head,        \* the atclose list, head first
  H5_debug_g,             \* trace, ttop, ttimes, pkg streams, open_stream
  checked,                \* H5_check_version: static bool checked
  disable_version_check,  \* H5_check_version: static unsigned
  stack,                  \* frames of the calls in progress, innermost first
  proc,                   \* "running", "aborted" or "exited"
  atexit_list,            \* functions registered with atexit()
  fds,                    \* file descriptors open in the process
  environ,                \* the process environment (getenv)
  build,                  \* how the library was built
  subsys,                 \* how the subsystems behave
  obs,                    \* what the last step did: call, return, output
  initlog,                \* subsystem inits invoked by the last H5_init_library
  reglog,                 \* entries registered since the last termination
  cblog,                  \* callbacks invoked by the H5_term_library in progress
  sweeplog,               \* <<name, n>> of the term_package calls of its sweep
  nsweeps,                \* sweeps it has begun
  npending,               \* sweeps of it that ended with pending work
  ncycles,                \* terminations completed
  unconverged,            \* the last of them left the loop with pending work
  vc_runs,                \* runs of the body of H5_check_version
  cur,                    \* the thread that is running; stack is its stack
  parked                  \* the stacks of the threads that are not running

Threads == 1..NThreads

prog ==
  <<H5_libinit_g, H5_libterm_g, H5_dont_atexit_g, H5_atclose_head, H5_debug_g,
    checked, disable_version_check, atexit_list, fds>>
\* What no operation of the library changes: the environment, the build, the
\* subsystems, and which thread the scheduler runs.
params == <<environ, build, subsys, cur, parked>>
ghost == <<initlog, reglog, cblog, sweeplog, nsweeps, npending, ncycles, unconverged,
          vc_runs>>
vars == <<prog, stack, proc, params, obs, ghost>>

(***************************************************************************)
(* H5_check_version                                                        *)
(***************************************************************************)
\* The output of the major/minor mismatch switch and of the release
\* exception switch, by level.
MismatchOutput(warning, level, settings) ==
  IF level = 0
  THEN <<warning, "Headers are">> \o settings \o <<"Bye...">>
  ELSE IF level = 1 THEN <<warning, "continue at your own risk", "Headers are">> \o settings
  ELSE <<>>

\* Variants of the switch: one that never reaches abort(), one whose
\* `case 1` falls into abort() as `case 0` does.
MismatchAbortsNever(level) == FALSE
MismatchAbortsBelow2(level) == level < 2

\* abort() is reached in `case 0` only.
MismatchAborts(level) == level = 0

\* `if (checked) HGOTO_DONE(SUCCEED)`
AlreadyChecked == checked

\* A variant that never records that the check was performed.
CheckedNever == FALSE

\* `checked = true` once the two comparisons are passed.
CheckedAfter == TRUE

\* The level read from HDF5_DISABLE_VERSION_CHECK: the static keeps its
\* value unless the variable is set and starts with a digit.
ReadDisableLevel ==
  LET s == environ.HDF5_DISABLE_VERSION_CHECK
  IN  IF s # NULL /\ s # <<>> /\ isdigit(s[1])
      THEN strtol(s).val
      ELSE disable_version_check

\* One call: the statics after it, what it printed, the variables it read
\* from the environment, and whether it called abort().
H5_check_version(majnum, minnum, relnum) ==
  IF AlreadyChecked
  THEN [checked |-> checked, level |-> disable_version_check, out |-> <<>>,
        getenv |-> {}, abort |-> FALSE, ret |-> SUCCEED]
  ELSE
    LET level == ReadDisableLevel
        vmis  == H5_VERS.major # majnum \/ H5_VERS.minor # minnum
        out1  == IF vmis
                 THEN MismatchOutput("VERSION_MISMATCH_WARNING", level, <<"H5build_settings">>)
                 ELSE <<>>
        ab1   == vmis /\ MismatchAborts(level)
        rmis  == /\ build.H5_VERS_RELEASE # relnum
                 /\ \E x \in VERS_RELEASE_EXCEPTIONS :
                       x = relnum \/ x = build.H5_VERS_RELEASE
        out2  == IF rmis
                 THEN MismatchOutput("RELEASE_MISMATCH_WARNING", level, <<>>)
                 ELSE <<>>
        ab2   == rmis /\ MismatchAborts(level)
        out3  == IF level = 0 /\ ~build.vers_info_ok
                 THEN <<"Library version information error">>
                 ELSE <<>>
    IN  IF ab1
        THEN [checked |-> FALSE, level |-> level, out |-> out1,
              getenv |-> {"HDF5_DISABLE_VERSION_CHECK"}, abort |-> TRUE, ret |-> SUCCEED]
        ELSE IF ab2
        THEN [checked |-> FALSE, level |-> level, out |-> out1 \o out2,
              getenv |-> {"HDF5_DISABLE_VERSION_CHECK"}, abort |-> TRUE, ret |-> SUCCEED]
        ELSE [checked |-> CheckedAfter, level |-> level, out |-> out1 \o out2 \o out3,
              getenv |-> {"HDF5_DISABLE_VERSION_CHECK"}, abort |-> FALSE, ret |-> SUCCEED]

(***************************************************************************)
(* H5__debug_mask                                                          *)
(***************************************************************************)
\* The package names set by H5_init_library, in the order of the code.
PkgNames ==
  << <<"a">>, <<"a", "c">>, <<"b">>, <<"d">>, <<"e">>, <<"f">>, <<"g">>,
     <<"h", "g">>, <<"h", "l">>, <<"i">>, <<"m">>, <<"m", "f">>,
     <<"m", "m">>, <<"o">>, <<"p">>, <<"s">>, <<"t">>, <<"v">>,
     <<"v", "l">>, <<"z">> >>
H5_NPKGS == Len(PkgNames)

\* sizeof pkg_name
PkgNameSize == 32

\* Streams (FILE *): the descriptor and what tells two FILEs on one
\* descriptor apart. NoStream is the NULL pointer, StdErr is stderr.
NoStream == [fd |-> -1, id |-> -1]
StdErr == [fd |-> 2, id |-> -1]

\* H5_debug_g of a zeroed struct (a fresh process); a name not yet set is
\* the empty sequence.
DebugZero ==
  [trace |-> NoStream, ttop |-> FALSE, ttimes |-> FALSE,
   pkg |-> [i \in 1..H5_NPKGS |-> [name |-> <<>>, stream |-> NoStream]],
   open_stream |-> <<>>]

\* memset(&H5_debug_g, 0, ..) and the names, as H5_init_library sets them.
DebugReset ==
  [DebugZero EXCEPT !.pkg = [i \in 1..H5_NPKGS |-> [name |-> PkgNames[i], stream |-> NoStream]]]

\* The stream of a successful fdopen(fd, "w"): a new FILE each time.
OpenedStream(fd, id) == [fd |-> fd, id |-> id]

\* A variant in which ttop and ttimes follow the sign for the trace stream
\* as `trace` does.
ApplyNameSigned(dbg, pkg_name, clear, stream) ==
  LET target == IF clear THEN NoStream ELSE stream IN
  IF pkg_name = <<"t", "r", "a", "c", "e">>
  THEN [dbg |-> [dbg EXCEPT !.trace = target], out |-> <<>>]
  ELSE IF pkg_name = <<"t", "t", "o", "p">>
  THEN [dbg |-> [dbg EXCEPT !.trace = target, !.ttop = ~clear], out |-> <<>>]
  ELSE IF pkg_name = <<"t", "t", "i", "m", "e", "s">>
  THEN [dbg |-> [dbg EXCEPT !.trace = target, !.ttimes = ~clear], out |-> <<>>]
  ELSE IF pkg_name = <<"a", "l", "l">>
  THEN [dbg |-> [dbg EXCEPT !.pkg = [i \in 1..H5_NPKGS |-> [@[i] EXCEPT !.stream = target]]],
        out |-> <<>>]
  ELSE IF \E i \in 1..H5_NPKGS : dbg.pkg[i].name = pkg_name
  THEN LET i == CHOOSE j \in 1..H5_NPKGS :
                  /\ dbg.pkg[j].name = pkg_name
                  /\ \A k \in 1..(j - 1) : dbg.pkg[k].name # pkg_name
       IN  [dbg |-> [dbg EXCEPT !.pkg[i].stream = target], out |-> <<>>]
  ELSE [dbg |-> dbg, out |-> <<"HDF5_DEBUG: ignored">>]

\* "Trace, all, or one?": H5_debug_g and the output after one name.
ApplyName(dbg, pkg_name, clear, stream) ==
  LET target == IF clear THEN NoStream ELSE stream IN
  IF pkg_name = <<"t", "r", "a", "c", "e">>
  THEN [dbg |-> [dbg EXCEPT !.trace = target], out |-> <<>>]
  ELSE IF pkg_name = <<"t", "t", "o", "p">>
  THEN [dbg |-> [dbg EXCEPT !.trace = stream, !.ttop = ~clear], out |-> <<>>]
  ELSE IF pkg_name = <<"t", "t", "i", "m", "e", "s">>
  THEN [dbg |-> [dbg EXCEPT !.trace = stream, !.ttimes = ~clear], out |-> <<>>]
  ELSE IF pkg_name = <<"a", "l", "l">>
  THEN [dbg |-> [dbg EXCEPT !.pkg = [i \in 1..H5_NPKGS |-> [@[i] EXCEPT !.stream = target]]],
        out |-> <<>>]
  ELSE IF \E i \in 1..H5_NPKGS : dbg.pkg[i].name = pkg_name
  THEN LET i == CHOOSE j \in 1..H5_NPKGS :
                  /\ dbg.pkg[j].name = pkg_name
                  /\ \A k \in 1..(j - 1) : dbg.pkg[k].name # pkg_name
       IN  [dbg |-> [dbg EXCEPT !.pkg[i].stream = target], out |-> <<>>]
  ELSE [dbg |-> dbg, out |-> <<"HDF5_DEBUG: ignored">>]

\* A variant in which fdopen gives a stream for any descriptor.
FdopenAlways(fd, open, id) == OpenedStream(fd, id)

\* What `stream` holds after `stream = HDfdopen(fd, "w")`.
FdopenResult(fd, open, id) == IF fd \in open THEN OpenedStream(fd, id) ELSE NoStream

\* A variant that takes a name without a sign as one to clear.
ClearUnsigned(c) == c # "+"

\* "Enable or Disable debugging?": clear is set by '-' only.
ClearOf(c) == c = "-"

RECURSIVE DebugMaskLoop(_)
\* The while loop over the string. st: s (the rest of the string), stream
\* (the current stream), dbg (H5_debug_g), fds (the open descriptors), out
\* (printed to stderr), alloc_ok (whether H5MM_malloc succeeds), id
\* (identifies the streams this call opens).
DebugMaskLoop(st) ==
  IF st.s = <<>> THEN st
  ELSE
    LET c == st.s[1] IN
    IF isalpha(c) \/ c = "-" \/ c = "+"
    THEN LET clear == ClearOf(c)
             s1    == IF c \in {"-", "+"} THEN Tail(st.s) ELSE st.s
             i     == AlphaRun(s1)
             name  == SubSeq(s1, 1, Min(PkgNameSize - 1, i))
             r     == ApplyName(st.dbg, name, clear, st.stream)
         IN  DebugMaskLoop([st EXCEPT !.s = SubSeq(s1, i + 1, Len(s1)),
                                      !.dbg = r.dbg, !.out = @ \o r.out])
    ELSE IF isdigit(c)
    THEN LET n      == strtol(st.s)
             rest   == SubSeq(st.s, n.len + 1, Len(st.s))
             stream == FdopenResult(n.val, st.fds, st.id)
         IN  IF stream = NoStream
             THEN DebugMaskLoop([st EXCEPT !.s = rest, !.stream = stream])
             ELSE IF ~st.alloc_ok
             THEN \* fclose(stream); return
                  [st EXCEPT !.s = <<>>, !.stream = stream, !.fds = @ \ {n.val}]
             ELSE DebugMaskLoop(
                    [st EXCEPT !.s = rest, !.stream = stream,
                               !.dbg.open_stream = <<stream>> \o @])
    ELSE DebugMaskLoop([st EXCEPT !.s = Tail(st.s)])

\* H5__debug_mask(s): `while (s && *s)`, the current stream starts as stderr.
H5__debug_mask(s, dbg, open, alloc_ok, id) ==
  DebugMaskLoop([s |-> IF s = NULL THEN <<>> ELSE s, stream |-> StdErr,
                 dbg |-> dbg, fds |-> open, out |-> <<>>, alloc_ok |-> alloc_ok,
                 id |-> id])

(***************************************************************************)
(* Frames, returns, observations.                                          *)
(***************************************************************************)
Frame0 ==
  [op |-> "", pc |-> "", func |-> NULL, ctx |-> NULL, curr |-> <<>>,
   pending |-> 0, ntries |-> 0, pos |-> 0, calls |-> 0, back |-> FALSE,
   rv |-> 0, efunc |-> FALSE, loop |-> <<>>, at |-> 0]

Top == stack[1]
Rest == Tail(stack)
Running(op) == stack # <<>> /\ Top.op = op /\ proc \in {"running", "exiting"}
Idle == stack = <<>> /\ proc = "running"

\* The stack after the innermost call returns r to its caller.
Return(r, st) ==
  IF Len(st) > 1 THEN <<[st[2] EXCEPT !.back = TRUE, !.rv = r]>> \o SubSeq(st, 3, Len(st))
  ELSE <<>>

\* The innermost frame counts one more library call made by it.
Counted(st) ==
  IF st # <<>> /\ st[1].op = "cb" THEN <<[st[1] EXCEPT !.calls = @ + 1]>> \o Tail(st)
  ELSE st

\* What a step did. op: the function acting; arg: its arguments, where the
\* model draws them; ev: the event; ret: <<r>> when the step returned r
\* from the call; out: what it printed to stderr; getenv: the variables it
\* read from the environment.
Obs(op, ev, ret, out, genv) ==
  [op |-> op, arg |-> <<>>, ev |-> ev, ret |-> ret, out |-> out, getenv |-> genv]

\* Whoever may call into the library now: the application when no call is
\* in progress, or the user callback that is running.
MayCall ==
  \/ Idle
  \/ /\ Running("cb") /\ Top.calls < MaxCbCalls

(***************************************************************************)
(* H5_init_library                                                         *)
(***************************************************************************)
\* A variant of the guard that never finds the library initialized.
AlreadyInitNever == FALSE

\* A variant of the guard that lets a call through during termination.
AlreadyInitNotTerm == H5_libinit_g /\ ~H5_libterm_g

\* `if (H5_INIT_GLOBAL || H5_TERM_GLOBAL) HGOTO_DONE(SUCCEED)`
AlreadyInit == H5_libinit_g \/ H5_libterm_g

\* A variant that installs the exit hook in every initialization.
InstallAtexitAlways == TRUE

\* `if (!H5_dont_atexit_g)`: whether the exit hook is installed now.
InstallAtexit == ~H5_dont_atexit_g

\* A variant that leaves the flag for the end of the initialization.
InitFlagLate == FALSE

\* `H5_INIT_GLOBAL = true`, "set the 'library initialized' flag as early
\* as possible".
InitFlagAtEntry == TRUE

\* H5_init_library up to the first subsystem init, called with the frames
\* `under` it: the version check, the flag, H5_debug_g, the exit hook.
InitBegin(under, op) ==
  LET cv == H5_check_version(H5_VERS.major, H5_VERS.minor, build.H5_VERS_RELEASE) IN
  /\ ncycles < MaxCycles
  /\ checked' = cv.checked
  /\ disable_version_check' = cv.level
  /\ proc' = IF cv.abort THEN "aborted" ELSE proc
  /\ H5_libinit_g' = InitFlagAtEntry
  /\ H5_debug_g' = DebugReset
  /\ IF InstallAtexit
     THEN /\ atexit_list' = <<"H5_term_library">> \o atexit_list
          /\ H5_dont_atexit_g' = TRUE
     ELSE UNCHANGED <<atexit_list, H5_dont_atexit_g>>
  /\ stack' = <<[Frame0 EXCEPT !.op = "H5_init_library", !.pc = "pkg", !.pos = 1]>> \o under
  /\ initlog' = <<>>
  /\ obs' = Obs(op, "init_begin", <<>>, cv.out, cv.getenv)
  /\ vc_runs' = IF cv.getenv # {} THEN Min(vc_runs + 1, MaxCount) ELSE vc_runs
  /\ UNCHANGED <<H5_libterm_g, H5_atclose_head, fds, params,
                 reglog, cblog, sweeplog, nsweeps, npending, ncycles, unconverged>>

\* Whether a subsystem's init may fail.
InitOutcomes(name) == IF name \in subsys.may_fail THEN {SUCCEED, FAIL} ELSE {SUCCEED}

\* One `if (H5X_init() < 0) HGOTO_ERROR(..)`.
InitPkg ==
  /\ Running("H5_init_library") /\ Top.pc = "pkg"
  /\ LET name == InitOrder[Top.pos] IN
     \E r \in InitOutcomes(name) :
       /\ initlog' = Append(initlog, name)
       /\ IF r < 0
          THEN /\ stack' = Return(FAIL, stack)
               /\ obs' = Obs("H5_init_library", "init_failed", <<FAIL>>, <<>>, {})
          ELSE /\ stack' = <<[Top EXCEPT !.pos = @ + 1,
                                         !.pc = IF Top.pos = Len(InitOrder) THEN "debug" ELSE "pkg"]>>
                           \o Rest
               /\ obs' = Obs("H5_init_library", "init_pkg", <<>>, <<>>, {})
  /\ UNCHANGED <<prog, proc, params, reglog, cblog, sweeplog, nsweeps, npending,
                 ncycles, unconverged, vc_runs>>

\* Whether an allocation (H5MM_malloc, H5FL_MALLOC) may succeed.
AllocOutcomes == IF subsys.oom THEN {TRUE, FALSE} ELSE {TRUE}

\* H5__debug_mask("-all"); H5__debug_mask(getenv("HDF5_DEBUG")); and the
\* return of H5_init_library.
InitDebug ==
  /\ Running("H5_init_library") /\ Top.pc = "debug"
  /\ \E alloc_ok \in AllocOutcomes :
       LET d1 == H5__debug_mask(<<"-", "a", "l", "l">>, H5_debug_g, fds, TRUE, ncycles)
           d2 == H5__debug_mask(environ.HDF5_DEBUG, d1.dbg, d1.fds, alloc_ok, ncycles)
       IN  /\ H5_debug_g' = d2.dbg
           /\ fds' = d2.fds
           /\ obs' = Obs("H5_init_library", "init_done", <<SUCCEED>>, d1.out \o d2.out, {"HDF5_DEBUG"})
  /\ stack' = Return(SUCCEED, stack)
  /\ UNCHANGED <<H5_libinit_g, H5_libterm_g, H5_dont_atexit_g, H5_atclose_head,
                 checked, disable_version_check, atexit_list, proc, params, ghost>>

(***************************************************************************)
(* H5_term_library                                                         *)
(***************************************************************************)
\* A variant of the guard that tests the terminating flag instead.
AlreadyClosedTerm == H5_libterm_g

\* `if (!H5_INIT_GLOBAL) goto done`
AlreadyClosed == ~H5_libinit_g

\* A variant in which no test guards a term_package call.
GateAlways(pending) == TRUE

\* `if (pending == 0)` before a term_package call.
GateOpen(pending) == pending = 0

RECURSIVE Resolve(_, _)
\* The next term_package call of the sweep from position pos on: a call
\* whose test fails is skipped with the body of its if. NHooks + 1: none.
Resolve(pos, pending) ==
  IF pos > NHooks THEN NHooks + 1
  ELSE IF Hooks[pos].test /\ ~GateOpen(pending) THEN Resolve(Hooks[pos].skip, pending)
  ELSE pos

\* A variant of the loop test without the limit.
LoopAgainPending(pending, ntries) == pending # 0

\* Variants of the loop test: one that increments the counter before the
\* comparison, one that never repeats the body.
LoopAgainPre(pending, ntries) == pending # 0 /\ ntries + 1 < MaxTries
LoopAgainNever(pending, ntries) == FALSE

\* `while (pending && ntries++ < 100)`: whether the body runs again, and
\* ntries after the test (incremented only when pending is nonzero).
LoopAgain(pending, ntries) == pending # 0 /\ ntries < MaxTries
NtriesAfter(pending, ntries) == IF pending # 0 THEN ntries + 1 ELSE ntries

\* A variant that keeps only the result of the last call.
PendingLast(pending, n) == n

\* `pending += DOWN(X)`
PendingAfter(pending, n) == pending + n

\* What a subsystem's term_package may return in sweep number sweep: a
\* stuck subsystem always has work left, a busy one may have at any sweep,
\* an early one may have in the first sweep only.
TermOutcomes(name, sweep) ==
  IF name \in subsys.stuck THEN TermRets \ {0}
  ELSE IF name \in subsys.busy THEN TermRets
  ELSE IF name \in subsys.early /\ sweep = 1 THEN TermRets
  ELSE {0}

\* strlen(#F) of DOWN(F).
NameLen(name) ==
  IF name \in {"A_top", "D_top", "G_top", "M_top", "S_top", "T_top"} THEN 5
  ELSE IF name \in {"ES", "AC", "FD", "VL", "PL", "SL", "FL", "CX"} THEN 2
  ELSE 1

\* sizeof loop
LoopSize == 1024

\* A variant of DOWN that stops recording at the first name.
DownOnce(loop, at, name, n) ==
  IF n # 0 /\ at = 0 THEN [loop |-> Append(loop, name), at |-> NameLen(name)]
  ELSE [loop |-> loop, at |-> at]

\* DOWN(F) on the buffer: loop as the names and "..." written so far (the
\* commas between them left out), at as the number of characters.
Down(loop, at, name, n) ==
  IF n # 0 /\ at + 8 < LoopSize
  THEN [loop |-> Append(loop, name),
        at |-> at + (IF at # 0 THEN 1 ELSE 0) + NameLen(name)]
  ELSE IF n > 0 /\ at + 5 < LoopSize
  THEN [loop |-> Append(loop, "..."), at |-> at + 3]
  ELSE [loop |-> loop, at |-> at]

\* What H5E_get_default_auto_func may give: a function (TRUE) or none.
AutoFuncs == subsys.auto_func

\* A variant that goes to the sweeps without walking the atclose list.
TermFrameNoDrain ==
  [Frame0 EXCEPT !.op = "H5_term_library", !.pc = "sweep",
                 !.curr = H5_atclose_head, !.pos = 1]

\* The frame of H5_term_library once the flag is set: at the atclose loop
\* when the list is not empty, at the first sweep otherwise.
TermFrame ==
  [Frame0 EXCEPT !.op = "H5_term_library",
                 !.pc = IF H5_atclose_head # <<>> THEN "atclose" ELSE "sweep",
                 !.curr = H5_atclose_head, !.pos = 1]

\* H5_term_library called with the frames `under` it.
TermCall(under, op) ==
  IF AlreadyClosed
  THEN /\ stack' = under
       /\ obs' = Obs(op, "term_noop", <<SUCCEED>>, <<>>, {})
       /\ UNCHANGED <<prog, ghost>>
  ELSE /\ H5_libterm_g' = TRUE
       /\ \E func \in AutoFuncs : stack' = <<[TermFrame EXCEPT !.efunc = func]>> \o under
       /\ cblog' = <<>>
       /\ sweeplog' = <<>>
       /\ nsweeps' = IF H5_atclose_head # <<>> THEN 0 ELSE 1
       /\ npending' = 0
       /\ obs' = Obs(op, "term_begin", <<>>, <<>>, {})
       /\ UNCHANGED <<H5_libinit_g, H5_dont_atexit_g, H5_atclose_head, H5_debug_g,
                      checked, disable_version_check, atexit_list, fds,
                      initlog, reglog, ncycles, unconverged, vc_runs>>

\* `(*curr_atclose->func)(curr_atclose->ctx)`: the callback starts.
TermCallback ==
  /\ Running("H5_term_library") /\ Top.pc = "atclose"
  /\ cblog' = Append(cblog, Top.curr[1])
  /\ stack' = <<[Frame0 EXCEPT !.op = "cb", !.func = Top.curr[1].func,
                               !.ctx = Top.curr[1].ctx]>> \o stack
  /\ obs' = Obs("H5_term_library", "callback", <<>>, <<>>, {})
  /\ UNCHANGED <<prog, proc, params, initlog, reglog, sweeplog, nsweeps, npending,
                 ncycles, unconverged, vc_runs>>

\* A variant that leaves the head as the loop found it.
HeadKept == H5_atclose_head

\* The list head after the atclose loop: `H5_atclose_head = NULL`.
HeadAfterLoop == <<>>

\* The callback returns: "advance to next node and free this one", and
\* after the last node the head is reset and the first sweep begins.
CbReturn ==
  /\ Running("cb")
  /\ Len(stack) > 1 /\ stack[2].op = "H5_term_library" /\ stack[2].pc = "atclose"
  /\ LET t    == stack[2]
         next == Tail(t.curr)
     IN  IF next # <<>>
         THEN /\ stack' = <<[t EXCEPT !.curr = next]>> \o SubSeq(stack, 3, Len(stack))
              /\ UNCHANGED <<H5_atclose_head, nsweeps>>
         ELSE /\ stack' = <<[t EXCEPT !.curr = next, !.pc = "sweep", !.pos = 1,
                                      !.pending = 0]>> \o SubSeq(stack, 3, Len(stack))
              /\ H5_atclose_head' = HeadAfterLoop
              /\ nsweeps' = 1
  /\ obs' = Obs("cb", "cb_return", <<>>, <<>>, {})
  /\ UNCHANGED <<H5_libinit_g, H5_libterm_g, H5_dont_atexit_g, H5_debug_g,
                 checked, disable_version_check, atexit_list, fds, proc, params,
                 initlog, reglog, cblog, sweeplog, npending, ncycles, unconverged, vc_runs>>

\* One `pending += DOWN(X)`. The buffer is read only under `if (func)`
\* after the loop, so it is kept only when there is a function.
TermHook ==
  /\ Running("H5_term_library") /\ Top.pc = "sweep"
  /\ LET p == Resolve(Top.pos, Top.pending) IN
     /\ p <= NHooks
     /\ \E n \in TermOutcomes(Hooks[p].name, nsweeps) :
          LET d == IF Top.efunc THEN Down(Top.loop, Top.at, Hooks[p].name, n)
                   ELSE [loop |-> Top.loop, at |-> Top.at]
          IN  /\ stack' = <<[Top EXCEPT !.pending = PendingAfter(@, n), !.pos = p + 1,
                                        !.loop = d.loop, !.at = d.at]>> \o Rest
              /\ sweeplog' = Append(sweeplog, <<Hooks[p].name, n>>)
  /\ obs' = Obs("H5_term_library", "term_package", <<>>, <<>>, {})
  /\ UNCHANGED <<prog, proc, params, initlog, reglog, cblog, nsweeps, npending,
                 ncycles, unconverged, vc_runs>>

\* The end of the do body: `while (pending && ntries++ < 100)`.
TermWhile ==
  /\ Running("H5_term_library") /\ Top.pc = "sweep"
  /\ Resolve(Top.pos, Top.pending) > NHooks
  /\ IF LoopAgain(Top.pending, Top.ntries)
     THEN /\ stack' = <<[Top EXCEPT !.ntries = NtriesAfter(Top.pending, Top.ntries),
                                    !.pending = 0, !.pos = 1]>> \o Rest
          /\ sweeplog' = <<>>
          /\ nsweeps' = nsweeps + 1
     ELSE /\ stack' = <<[Top EXCEPT !.ntries = NtriesAfter(Top.pending, Top.ntries),
                                    !.pc = "report", !.pos = NHooks + 1]>> \o Rest
          /\ UNCHANGED <<sweeplog, nsweeps>>
  /\ npending' = IF Top.pending > 0 THEN npending + 1 ELSE npending
  /\ obs' = Obs("H5_term_library", "while", <<>>, <<>>, {})
  /\ UNCHANGED <<prog, proc, params, initlog, reglog, cblog, ncycles, unconverged, vc_runs>>

\* The descriptors closed by `fclose(H5_debug_g.open_stream->stream)`.
StreamFds(open_stream) == {open_stream[i].fd : i \in 1..Len(open_stream)}

\* `#ifndef NDEBUG abort(); #endif` after the message.
AbortsOnLoop(func) == func /\ ~build.NDEBUG

\* After the loop: the message when pending work is left, then the
\* debugging streams are closed. func: whether H5E_get_default_auto_func
\* gave a function (error output is displayed).
TermFinish ==
  /\ Running("H5_term_library") /\ Top.pc = "report"
  /\ LET func == Top.efunc
         out == IF Top.pending # 0 /\ func
                THEN <<"HDF5: infinite loop closing library">> \o Top.loop ELSE <<>>
     IN
       IF Top.pending # 0 /\ AbortsOnLoop(func)
       THEN /\ proc' = "aborted"
            /\ obs' = Obs("H5_term_library", "term_abort", <<>>, out, {})
            /\ UNCHANGED <<prog, stack>>
       ELSE /\ fds' = fds \ StreamFds(H5_debug_g.open_stream)
            /\ H5_debug_g' = [H5_debug_g EXCEPT !.open_stream = <<>>]
            /\ stack' = <<[Top EXCEPT !.pc = "flags"]>> \o Rest
            /\ obs' = Obs("H5_term_library", "term_streams", <<>>, out, {})
            /\ UNCHANGED <<H5_libinit_g, H5_libterm_g, H5_dont_atexit_g, H5_atclose_head,
                           checked, disable_version_check, atexit_list, proc>>
  /\ UNCHANGED <<params, ghost>>

\* A variant that leaves the library marked open when work is pending.
InitFlagWedged(pending) == pending # 0

\* `H5_INIT_GLOBAL = false`, whatever is pending.
InitFlagAfter(pending) == FALSE

\* A variant that marks the library closed first.
FlagsInitFirst == [term |-> H5_libterm_g, init |-> FALSE]

\* The two flags after `H5_TERM_GLOBAL = false`.
FlagsAfterClear == [term |-> FALSE, init |-> H5_libinit_g]

\* "Reset flag indicating that the library is being shut down".
TermClear ==
  /\ Running("H5_term_library") /\ Top.pc = "flags"
  /\ H5_libterm_g' = FlagsAfterClear.term
  /\ H5_libinit_g' = FlagsAfterClear.init
  /\ stack' = <<[Top EXCEPT !.pc = "closed"]>> \o Rest
  /\ obs' = Obs("H5_term_library", "term_clear", <<>>, <<>>, {})
  /\ UNCHANGED <<H5_dont_atexit_g, H5_atclose_head, H5_debug_g, checked,
                 disable_version_check, atexit_list, fds, proc, params, ghost>>

\* "Mark library as closed": `H5_INIT_GLOBAL = false`, and the return.
TermReturn ==
  /\ Running("H5_term_library") /\ Top.pc = "closed"
  /\ H5_libinit_g' = InitFlagAfter(Top.pending)
  /\ UNCHANGED H5_libterm_g
  /\ stack' = Return(SUCCEED, stack)
  /\ ncycles' = ncycles + 1
  /\ unconverged' = (Top.pending # 0)
  /\ reglog' = <<>>
  /\ cblog' = <<>>
  /\ sweeplog' = <<>>
  /\ nsweeps' = 0
  /\ npending' = 0
  /\ obs' = Obs("H5_term_library", "term_done", <<SUCCEED>>, <<>>, {})
  /\ UNCHANGED <<H5_dont_atexit_g, H5_atclose_head, H5_debug_g, checked,
                 disable_version_check, atexit_list, fds, proc, params, initlog, vc_runs>>

(***************************************************************************)
(* The API: H5open, H5atclose, H5close, H5dont_atexit, H5check_version.    *)
(***************************************************************************)
\* FUNC_ENTER_API of H5open: "all work is done by FUNC_ENTER()".
H5open ==
  /\ MayCall
  /\ IF AlreadyInit
     THEN /\ stack' = Counted(stack)
          /\ obs' = Obs("H5open", "init_noop", <<SUCCEED>>, <<>>, {})
          /\ UNCHANGED <<prog, proc, params, ghost>>
     ELSE InitBegin(<<[Frame0 EXCEPT !.op = "H5open", !.pc = "enter"]>> \o Counted(stack),
                    "H5open")

\* H5_init_library has returned to H5open.
H5openResume ==
  /\ Running("H5open") /\ Top.back
  /\ LET r == IF Top.rv < 0 THEN FAIL ELSE SUCCEED IN
     /\ stack' = Return(r, stack)
     /\ obs' = Obs("H5open", "resume", <<r>>, <<>>, {})
  /\ UNCHANGED <<prog, proc, params, ghost>>

\* A variant that links the new node at the tail.
AtcloseAppend(node, head) == head \o <<node>>

\* `new_atclose->next = H5_atclose_head; H5_atclose_head = new_atclose`
AtcloseInsert(node, head) == <<node>> \o head

\* The body of H5atclose. direct: H5_init_library returned at once, in the
\* step of the call.
\* reg tells the nodes of one cycle from those of another.
\* A variant without the two tests.
AtcloseUnchecked(func, alloc_ok) == SUCCEED

\* `if (NULL == func) HGOTO_ERROR(.., FAIL, ..)` and `if (NULL ==
\* (new_atclose = H5FL_MALLOC(..))) HGOTO_ERROR(.., FAIL, ..)`.
AtcloseResult(func, alloc_ok) ==
  IF func = NULL THEN FAIL ELSE IF ~alloc_ok THEN FAIL ELSE SUCCEED

\* H5atclose once the library is initialized. alloc_ok: whether H5FL_MALLOC
\* gives a node.
AtcloseBody(func, ctx, alloc_ok, direct) ==
  LET r == AtcloseResult(func, alloc_ok)
      node == [func |-> func, ctx |-> ctx, reg |-> ncycles]
  IN  /\ stack' = IF direct THEN Counted(stack) ELSE Return(r, stack)
      /\ obs' = [Obs("H5atclose", IF direct THEN "call" ELSE "resume", <<r>>, <<>>, {})
                 EXCEPT !.arg = <<func, ctx, alloc_ok>>]
      /\ IF r = SUCCEED
         THEN /\ H5_atclose_head' = AtcloseInsert(node, H5_atclose_head)
              /\ reglog' = IF H5_libterm_g THEN reglog ELSE Append(reglog, node)
         ELSE UNCHANGED <<H5_atclose_head, reglog>>
      /\ UNCHANGED <<H5_libinit_g, H5_libterm_g, H5_dont_atexit_g, H5_debug_g,
                     checked, disable_version_check, atexit_list, fds, proc, params,
                     initlog, cblog, sweeplog, nsweeps, npending, ncycles, unconverged, vc_runs>>

H5atclose ==
  /\ MayCall
  /\ Len(H5_atclose_head) < MaxReg
  /\ \E func \in Funcs \cup {NULL} :
       IF AlreadyInit
       THEN \E alloc_ok \in AllocOutcomes : AtcloseBody(func, CtxOf(func), alloc_ok, TRUE)
       ELSE InitBegin(<<[Frame0 EXCEPT !.op = "H5atclose", !.pc = "enter",
                                       !.func = func, !.ctx = CtxOf(func)]>>
                      \o Counted(stack), "H5atclose")

\* FUNC_ENTER_API(FAIL): the call fails when the initialization it asked
\* for failed.
EnterFailed(rv) == rv < 0

\* H5_init_library has returned to H5atclose.
H5atcloseResume ==
  /\ Running("H5atclose") /\ Top.back
  /\ IF EnterFailed(Top.rv)
     THEN /\ stack' = Return(FAIL, stack)
          /\ obs' = Obs("H5atclose", "resume", <<FAIL>>, <<>>, {})
          /\ UNCHANGED <<prog, proc, params, ghost>>
     ELSE \E alloc_ok \in AllocOutcomes : AtcloseBody(Top.func, Top.ctx, alloc_ok, FALSE)

\* H5close: `H5_term_library()` without initializing the library.
H5close ==
  /\ Idle
  /\ TermCall(stack, "H5close")
  /\ UNCHANGED <<proc, params>>

\* A variant that never finds the flag set.
OptedOutNever == FALSE

\* `if (H5_dont_atexit_g)`
OptedOut == H5_dont_atexit_g

H5dont_atexit ==
  /\ Idle
  /\ IF OptedOut
     THEN /\ obs' = Obs("H5dont_atexit", "return", <<FAIL>>, <<>>, {})
          /\ UNCHANGED H5_dont_atexit_g
     ELSE /\ obs' = Obs("H5dont_atexit", "return", <<SUCCEED>>, <<>>, {})
          /\ H5_dont_atexit_g' = TRUE
  /\ UNCHANGED <<H5_libinit_g, H5_libterm_g, H5_atclose_head, H5_debug_g, checked,
                 disable_version_check, atexit_list, fds, stack, proc, params, ghost>>

\* The version numbers an application passes to H5check_version.
VersArgs ==
  {[major |-> a, minor |-> b, release |-> c] : a \in {1, 2}, b \in {4, 5}, c \in {0, 1}}

H5check_version ==
  /\ Idle
  /\ \E v \in VersArgs :
       LET cv == H5_check_version(v.major, v.minor, v.release) IN
       /\ checked' = cv.checked
       /\ disable_version_check' = cv.level
       /\ proc' = IF cv.abort THEN "aborted" ELSE proc
       /\ obs' = [Obs("H5check_version", IF cv.abort THEN "abort" ELSE "return",
                      IF cv.abort THEN <<>> ELSE <<cv.ret>>, cv.out, cv.getenv)
                  EXCEPT !.arg = <<v>>]
       /\ vc_runs' = IF cv.getenv # {} THEN Min(vc_runs + 1, MaxCount) ELSE vc_runs
  /\ UNCHANGED <<H5_libinit_g, H5_libterm_g, H5_dont_atexit_g, H5_atclose_head,
                 H5_debug_g, atexit_list, fds, stack, params,
                 initlog, reglog, cblog, sweeplog, nsweeps, npending, ncycles, unconverged>>

(***************************************************************************)
(* exit(): the functions registered with atexit() run, last first.         *)
(***************************************************************************)
Exit ==
  /\ Idle
  /\ proc' = "exiting"
  /\ stack' = <<[Frame0 EXCEPT !.op = "exit", !.curr = atexit_list]>>
  /\ obs' = Obs("exit", "exit", <<>>, <<>>, {})
  /\ UNCHANGED <<prog, params, ghost>>

ExitStep ==
  /\ Running("exit")
  /\ IF Top.curr = <<>>
     THEN /\ stack' = <<>>
          /\ proc' = "exited"
          /\ obs' = Obs("exit", "exited", <<>>, <<>>, {})
          /\ UNCHANGED <<prog, ghost>>
     ELSE /\ TermCall(<<[Top EXCEPT !.curr = Tail(@)]>> \o Rest, "atexit")
          /\ UNCHANGED proc
  /\ UNCHANGED params

(***************************************************************************)
(* Specifications.                                                         *)
(***************************************************************************)
InitState ==
  /\ H5_libinit_g = FALSE
  /\ H5_libterm_g = FALSE
  /\ H5_dont_atexit_g = FALSE
  /\ H5_atclose_head = <<>>
  /\ H5_debug_g = DebugZero
  /\ checked = FALSE
  /\ disable_version_check = 0
  /\ stack = <<>>
  /\ proc = "running"
  /\ atexit_list = <<>>
  /\ fds = {0, 1, 2, 3}
  /\ obs = Obs("main", "start", <<>>, <<>>, {})
  /\ initlog = <<>>
  /\ reglog = <<>>
  /\ cblog = <<>>
  /\ sweeplog = <<>>
  /\ nsweeps = 0
  /\ npending = 0
  /\ ncycles = 0
  /\ unconverged = FALSE
  /\ vc_runs = 0
  /\ cur = 1
  /\ parked = [t \in Threads |-> <<>>]

\* Values of HDF5_DISABLE_VERSION_CHECK and of HDF5_DEBUG.
LevelStrings == {NULL, <<"0">>, <<"1">>, <<"2">>, <<"3">>, <<"x">>, <<"0", "x", "2">>}
DebugStrings == {NULL, <<"3", " ", "a", "l", "l">>}

\* The application's view: the entry points an application calls, with
\* subsystems that quiesce in one sweep, of which one (the datatypes) may
\* fail to initialize.
Init ==
  /\ InitState
  /\ environ \in [HDF5_DISABLE_VERSION_CHECK : {NULL}, HDF5_DEBUG : DebugStrings]
  /\ build \in [NDEBUG : {TRUE}, H5_VERS_RELEASE : {1}, vers_info_ok : {TRUE}]
  /\ subsys \in [busy : {{}}, may_fail : {{}, {"T"}}, oom : {FALSE},
                 stuck : {{}}, early : {{}}, auto_func : {{TRUE}}]

Next ==
  \/ H5open
  \/ H5openResume
  \/ H5atclose
  \/ H5atcloseResume
  \/ H5close
  \/ H5dont_atexit
  \/ InitPkg
  \/ InitDebug
  \/ TermCallback
  \/ CbReturn
  \/ TermHook
  \/ TermWhile
  \/ TermFinish
  \/ TermClear
  \/ TermReturn

Spec == Init /\ [][Next]_vars

\* The shutdown engine: an application that opens and closes the library,
\* with subsystems of which any may report pending work at any call.
InitSweep ==
  /\ InitState
  /\ environ \in [HDF5_DISABLE_VERSION_CHECK : {NULL}, HDF5_DEBUG : {NULL}]
  /\ build \in [NDEBUG : BOOLEAN, H5_VERS_RELEASE : {1}, vers_info_ok : {TRUE}]
  /\ subsys \in [busy : {HookNames}, may_fail : {{}}, oom : {FALSE}, stuck : {{}},
                 early : {{}}, auto_func : {{FALSE}}]

NextSweep ==
  \/ H5open
  \/ H5openResume
  \/ H5close
  \/ InitPkg
  \/ InitDebug
  \/ TermHook
  \/ TermWhile
  \/ TermFinish
  \/ TermClear
  \/ TermReturn

SpecSweep == InitSweep /\ [][NextSweep]_vars

\* The version guard: an application that checks versions, opens and closes
\* the library, under every level of HDF5_DISABLE_VERSION_CHECK.
InitVersion ==
  /\ InitState
  /\ environ \in [HDF5_DISABLE_VERSION_CHECK : LevelStrings, HDF5_DEBUG : {NULL}]
  /\ build \in [NDEBUG : {TRUE}, H5_VERS_RELEASE : {0, 1}, vers_info_ok : BOOLEAN]
  /\ subsys \in [busy : {{}}, may_fail : {{}}, oom : {FALSE},
                 stuck : {{}}, early : {{}}, auto_func : {{TRUE}}]

NextVersion ==
  \/ H5check_version
  \/ H5open
  \/ H5openResume
  \/ H5close
  \/ InitPkg
  \/ InitDebug
  \/ TermHook
  \/ TermWhile
  \/ TermFinish
  \/ TermClear
  \/ TermReturn

SpecVersion == InitVersion /\ [][NextVersion]_vars

\* The registry across terminations: an application that registers
\* callbacks, opens and closes the library, with event sets that may report
\* pending work at any call, up to the cap of the loop and beyond.
InitCap ==
  /\ InitState
  /\ environ \in [HDF5_DISABLE_VERSION_CHECK : {NULL}, HDF5_DEBUG : {NULL}]
  /\ build \in [NDEBUG : BOOLEAN, H5_VERS_RELEASE : {1}, vers_info_ok : {TRUE}]
  /\ subsys \in [busy : {{"ES"}}, may_fail : {{}}, oom : {FALSE},
                 stuck : {{}}, early : {{}}, auto_func : {{TRUE}}]

NextCap ==
  \/ H5open
  \/ H5openResume
  \/ H5atclose
  \/ H5atcloseResume
  \/ H5close
  \/ InitPkg
  \/ InitDebug
  \/ TermCallback
  \/ CbReturn
  \/ TermHook
  \/ TermWhile
  \/ TermFinish
  \/ TermClear
  \/ TermReturn

SpecCap == InitCap /\ [][NextCap]_vars

(***************************************************************************)
(* Properties.                                                             *)
(***************************************************************************)
\* The positions of the frames of H5_term_library on the stack.
TermFrames == {i \in DOMAIN stack : stack[i].op = "H5_term_library"}

Reverse(s) == [i \in 1..Len(s) |-> s[Len(s) + 1 - i]]
IsPrefix(s, u) == Len(s) <= Len(u) /\ SubSeq(u, 1, Len(s)) = s

\* The level HDF5_DISABLE_VERSION_CHECK asks for: 0 unless it is set and
\* starts with a digit.
EnvLevel ==
  LET s == environ.HDF5_DISABLE_VERSION_CHECK
  IN  IF s # NULL /\ s # <<>> /\ isdigit(s[1]) THEN strtol(s).val ELSE 0

\* The numbers differ from the library's in major or in minor.
Mismatch(v) == v.major # H5_VERS.major \/ v.minor # H5_VERS.minor

\* The step is a call of H5check_version.
CheckCalled == obs.op = "H5check_version" /\ obs.arg # <<>>

\* The step is a call of H5_init_library, made for H5open or H5atclose.
InitCalled == obs.op \in {"H5open", "H5atclose"} /\ obs.ev # "resume"

\* C1: H5_init_library called while the library is initialized or is
\* terminating returns success and changes nothing: it runs no version
\* check, installs no exit hook, starts no subsystem init, and the two
\* flags keep their values. (H5atclose then goes on to its own body, so
\* only the registry may differ after its step.)
C1_InitNoop ==
  [][(InitCalled' /\ (H5_libinit_g \/ H5_libterm_g))
     => /\ UNCHANGED <<H5_libinit_g, H5_libterm_g, H5_dont_atexit_g, H5_debug_g,
                       checked, disable_version_check, atexit_list, fds, proc,
                       initlog, vc_runs>>
        /\ obs'.getenv = {} /\ obs'.out = <<>>
        /\ \A i \in DOMAIN stack' : stack'[i].op \notin {"H5_init_library", "H5open", "H5atclose"}
        /\ obs'.op = "H5open" => obs'.ret = <<SUCCEED>> /\ UNCHANGED H5_atclose_head
    ]_vars

\* H5open, called by an atclose callback during termination, has returned.
C1_Witness ==
  /\ obs.op = "H5open" /\ obs.ev = "init_noop" /\ obs.ret = <<SUCCEED>>
  /\ H5_libterm_g /\ H5_libinit_g

\* C2: the callbacks registered while the library was initialized are
\* invoked by the next termination once each, with the context they were
\* registered with, the last registered first: while the registry is
\* drained the callbacks invoked so far are a prefix of the registrations
\* reversed, and once it is drained they are all of them.
C2_Lifo ==
  \A i \in TermFrames :
    IF stack[i].pc = "atclose"
    THEN IsPrefix(cblog, Reverse(reglog))
    ELSE cblog = Reverse(reglog)

\* Two different callbacks were registered and the drain is over.
C2_Witness ==
  /\ \E i \in TermFrames : stack[i].pc = "sweep"
  /\ Len(reglog) = 2 /\ reglog[1] # reglog[2]
  /\ cblog = <<reglog[2], reglog[1]>>

SpecPhases ==
  <<1, 2, 3, 3, 3, 3, 3, 3, 4, 5, 6, 6, 6, 6, 6, 6, 7, 7, 7, 7, 8, 8, 8, 8, 8, 8>>
CodePhases ==
  <<1, 2, 2, 2, 2, 2, 2, 2, 4, 5, 6, 6, 6, 6, 6, 6, 7, 7, 7, 7, 8, 8, 8, 8, 8, 8>>

HookIndex(name) == CHOOSE p \in 1..NHooks : Hooks[p].name = name

\* In the sweep so far, a hook was invoked only if every hook of an
\* earlier phase returned 0.
GatedBy(phases) ==
  \A i, j \in 1..Len(sweeplog) :
    (i < j /\ phases[HookIndex(sweeplog[i][1])] < phases[HookIndex(sweeplog[j][1])])
      => sweeplog[i][2] = 0

\* C4 (as the code has it): within a sweep a hook of a later phase is
\* invoked only if every hook of every earlier phase returned 0 in that
\* sweep, where H5L_term_package is of the phase of the six "top" hooks.
C4_PhaseGate == GatedBy(CodePhases)

\* C4 as stated, with H5L_term_package a phase of its own before the
\* "top" hooks.
C4_Original == GatedBy(SpecPhases)

\* H5F_term_package was invoked, after nine hooks that returned 0.
C4_Witness ==
  /\ Len(sweeplog) >= 9
  /\ sweeplog[9][1] = "F"
  /\ nsweeps >= 2

\* C5: an initialization that completes after a termination is a full
\* one: every subsystem init was invoked again, in the fixed order, the
\* library is initialized and not terminating, the atclose registry is
\* empty and every open debugging stream was opened by this
\* initialization; and the termination before it left both flags clear,
\* the registry empty and no debugging stream open.
C5_RoundTrip ==
  /\ (ncycles >= 1 /\ obs.ev = "init_done")
       => /\ obs.ret = <<SUCCEED>>
          /\ initlog = InitOrder
          /\ H5_libinit_g /\ ~H5_libterm_g
          /\ H5_atclose_head = <<>>
          /\ \A k \in DOMAIN H5_debug_g.open_stream :
               H5_debug_g.open_stream[k].id = ncycles
  /\ obs.ev = "term_done"
       => /\ ~H5_libinit_g /\ ~H5_libterm_g
          /\ H5_atclose_head = <<>>
          /\ H5_debug_g.open_stream = <<>>

\* The second initialization has completed, with HDF5_DEBUG naming a
\* descriptor that the first one opened.
C5_Witness ==
  /\ ncycles = 1 /\ obs.ev = "init_done"
  /\ environ.HDF5_DEBUG # NULL
  /\ initlog = InitOrder

\* C6: H5close (H5_term_library) called when the library is not
\* initialized does nothing: no callback and no term_package hook is
\* invoked, the library is not initialized, and both flags stay false.
C6_TermNoop ==
  [][(obs'.op = "H5close" /\ ~H5_libinit_g)
     => /\ UNCHANGED <<prog, proc, stack, ghost>>
        /\ ~H5_libinit_g' /\ ~H5_libterm_g'
        /\ obs'.ret = <<SUCCEED>>
    ]_vars

\* H5close has returned, called on a library that was never initialized.
C6_Witness ==
  /\ obs.op = "H5close" /\ obs.ev = "term_noop"
  /\ ncycles = 0 /\ ~H5_libinit_g /\ initlog = <<>>

\* C7: a termination in which no more than MaxTries sweeps ended with
\* pending work leaves the loop after a sweep in which every hook invoked
\* returned 0, with nothing pending, so that no failure is reported.
C7_Converges ==
  \A i \in TermFrames :
    (stack[i].pc = "report" /\ npending <= MaxTries)
      => /\ stack[i].pending = 0
         /\ \A k \in DOMAIN sweeplog : sweeplog[k][2] = 0

\* The loop was left with nothing pending after two sweeps that had ended
\* with pending work.
C7_Witness ==
  \E i \in TermFrames :
    /\ stack[i].pc = "report" /\ stack[i].pending = 0
    /\ npending = 2 /\ nsweeps = 3
    /\ Len(sweeplog) = NHooks

\* C8 (as the code has it): at level 0 a call of H5check_version with a
\* major or minor number that differs from the library's aborts the
\* process when no version check has run in the process before.
C8_AbortsFirst ==
  [][(CheckCalled' /\ Mismatch(obs'.arg[1]) /\ EnvLevel = 0 /\ vc_runs = 0)
     => proc' = "aborted"
    ]_vars

\* C8 as stated: at level 0 every such call aborts the process.
C8_Original ==
  (CheckCalled /\ Mismatch(obs.arg[1]) /\ EnvLevel = 0) => proc = "aborted"

\* The process was aborted by a check of major number 2 at level 0.
C8_Witness ==
  /\ CheckCalled /\ obs.arg[1].major = 2 /\ obs.ev = "abort"
  /\ EnvLevel = 0 /\ proc = "aborted"
  /\ obs.out # <<>>

HasWarning(out) == \E k \in DOMAIN out : out[k] = "VERSION_MISMATCH_WARNING"

\* C9 (as the code has it): at a level of 1 or more no version check
\* aborts the process; a major/minor mismatch passed to H5check_version
\* prints nothing at level 2 or higher, and at level 1 it prints the
\* diagnostic and continues when no version check has run in the process
\* before.
C9_Levels ==
  [][/\ EnvLevel >= 1 => proc' # "aborted"
     /\ (CheckCalled' /\ Mismatch(obs'.arg[1]))
          => /\ EnvLevel >= 2 => obs'.out = <<>>
             /\ (EnvLevel = 1 /\ vc_runs = 0)
                  => HasWarning(obs'.out) /\ obs'.ret = <<SUCCEED>>
    ]_vars

\* C9 as stated, of level 1: every major/minor mismatch passed to
\* H5check_version prints the diagnostic.
C9_Original ==
  (CheckCalled /\ Mismatch(obs.arg[1]) /\ EnvLevel = 1) => HasWarning(obs.out)

\* The diagnostic was printed at level 1 and the call returned.
C9_Witness ==
  /\ CheckCalled /\ Mismatch(obs.arg[1]) /\ obs.getenv # {}
  /\ EnvLevel = 1 /\ HasWarning(obs.out) /\ obs.ret = <<SUCCEED>>

\* C10: the body of H5_check_version runs at most once in a process: once
\* a call has run it and returned, no later step runs it again, and every
\* later call, by H5check_version or by H5_init_library, reads no
\* environment variable, prints nothing, does not abort and changes
\* neither static; H5check_version returns SUCCEED.
C10_CheckedOnce ==
  [][vc_runs >= 1
     => /\ vc_runs' = vc_runs
        /\ (CheckCalled' \/ obs'.ev = "init_begin")
             => /\ obs'.getenv = {} /\ obs'.out = <<>>
                /\ proc' = proc
                /\ UNCHANGED <<checked, disable_version_check>>
        /\ CheckCalled' => obs'.ret = <<SUCCEED>>
    ]_vars

\* A call with a wrong major number has returned at level 0, after the
\* check had been performed.
C10_Witness ==
  /\ CheckCalled /\ obs.arg[1].major # H5_VERS.major
  /\ EnvLevel = 0 /\ vc_runs = 1
  /\ obs.ev = "return" /\ obs.getenv = {} /\ proc = "running"

\* C11: once the atclose loop is over, and when H5_term_library has
\* returned, the registry is empty, whether callbacks ran or not and whether
\* the sweeps converged or not; and every callback a termination invokes
\* was registered in the cycle that this termination ends.
C11_RegistryEmptied ==
  /\ \A i \in TermFrames : stack[i].pc # "atclose" => H5_atclose_head = <<>>
  /\ obs.ev = "term_done" => H5_atclose_head = <<>>
  /\ \A k \in DOMAIN cblog : cblog[k].reg = ncycles

\* A callback is invoked in the second cycle, after a first termination
\* that did not converge.
C11_Witness ==
  /\ ncycles = 1 /\ unconverged
  /\ Len(cblog) >= 1 /\ Len(reglog) >= 1
  /\ \E i \in TermFrames : stack[i].pc = "atclose"

\* C12: a termination that left the loop at the cap with pending work and
\* returned has cleared both flags, and the initialization that follows it
\* is a full one: every subsystem init is invoked, in the fixed order, and
\* the library ends initialized and not terminating.
C12_NotWedged ==
  /\ (unconverged /\ obs.ev = "term_done")
       => ~H5_libterm_g /\ ~H5_libinit_g /\ TermFrames = {}
  /\ (unconverged /\ obs.ev = "init_done")
       => /\ initlog = InitOrder
          /\ H5_libinit_g /\ ~H5_libterm_g
          /\ obs.ret = <<SUCCEED>>

\* The library was initialized again after a termination that had run
\* into the cap.
C12_Witness ==
  /\ unconverged /\ ncycles = 1
  /\ obs.ev = "init_done" /\ H5_libinit_g

(***************************************************************************)
(* Threads.  A thread-safe build serializes the library with one           *)
(* process-wide lock: H5_API_LOCK in H5_term_library and in                *)
(* FUNC_ENTER_API, released by H5_API_UNLOCK when the call leaves the      *)
(* library.  The thread inside the library is the one with frames on its   *)
(* stack; the scheduler may preempt it at any step.                        *)
(***************************************************************************)
StackOf(t) == IF t = cur THEN stack ELSE parked[t]

\* A build without the lock.
LockAbsent == TRUE

\* H5_API_LOCK: the caller proceeds when no other thread is inside the library.
LockFree == \A t \in Threads \ {cur} : parked[t] = <<>>

\* The scheduler runs thread t instead of the running one.
Switch ==
  \E t \in Threads \ {cur} :
    /\ proc = "running"
    /\ cur' = t
    /\ stack' = parked[t]
    /\ parked' = [parked EXCEPT ![cur] = stack, ![t] = <<>>]
    /\ obs' = Obs("scheduler", "switch", <<>>, <<>>, {})
    /\ UNCHANGED <<prog, proc, environ, build, subsys, ghost>>

\* H5open and H5close of the running thread, behind the lock.
LockedH5open == LockFree /\ H5open

LockedH5close == LockFree /\ H5close

InitThreads ==
  /\ InitState
  /\ environ \in [HDF5_DISABLE_VERSION_CHECK : {NULL}, HDF5_DEBUG : {NULL}]
  /\ build \in [NDEBUG : {TRUE}, H5_VERS_RELEASE : {1}, vers_info_ok : {TRUE}]
  /\ subsys \in [busy : {{}}, may_fail : {{}, {"T"}}, oom : {FALSE},
                 stuck : {{}}, early : {{}}, auto_func : {{TRUE}}]

NextThreads ==
  \/ Switch
  \/ LockedH5open
  \/ H5openResume
  \/ LockedH5close
  \/ InitPkg
  \/ InitDebug
  \/ TermHook
  \/ TermWhile
  \/ TermFinish
  \/ TermClear
  \/ TermReturn

SpecThreads == InitThreads /\ [][NextThreads]_vars

\* Some thread has an initialization in progress.
InitInProgress ==
  \E t \in Threads : \E i \in DOMAIN StackOf(t) : StackOf(t)[i].op = "H5_init_library"

\* C13: with the process-wide lock, at most one thread is inside library
\* initialization or termination at any time, no subsystem initializer runs
\* twice for one initialization, and a thread whose initializing call finds
\* the library initialized returns only when no initialization is in progress.
C13_Serialized ==
  /\ Cardinality({t \in Threads : StackOf(t) # <<>>}) <= 1
  /\ IsPrefix(initlog, InitOrder)
  /\ obs.ev = "init_noop" => ~InitInProgress

\* Thread 1 is preempted inside H5_init_library after some subsystems; the
\* running thread is kept out by the lock.
C13_Witness ==
  /\ cur # 1
  /\ \E i \in DOMAIN parked[1] : parked[1][i].op = "H5_init_library"
  /\ Len(initlog) >= 2
  /\ stack = <<>>
  /\ ~LockFree

(***************************************************************************)
(* Termination called from inside a termination: an atclose callback that  *)
(* calls H5close.  The loop of H5_term_library frees each node after its   *)
(* callback and resets H5_atclose_head only after the last one, and the    *)
(* only test on entry is `!H5_INIT_GLOBAL`.                                *)
(***************************************************************************)
\* Nodes the atclose loop in progress has freed are still reachable from
\* H5_atclose_head: the callbacks before the running one have returned.
HeadDangling == H5_atclose_head # <<>> /\ Len(cblog) > 1

\* The node whose callback is running was freed by a termination that ran
\* to its end inside the callback (it cleared H5_TERM_GLOBAL on its way out).
NodeFreed == ~H5_libterm_g

\* H5close called by an atclose callback.  When the walk would start at a
\* freed node the behaviour is undefined: the process crashes, or the walk
\* reads the stale nodes.
CbH5close ==
  /\ Running("cb") /\ Top.calls < MaxCbCalls
  /\ Cardinality(TermFrames) <= MaxNest
  /\ \E crash \in (IF ~AlreadyClosed /\ HeadDangling THEN BOOLEAN ELSE {FALSE}) :
       IF crash
       THEN /\ proc' = "crashed"
            /\ obs' = Obs("H5close", "undefined", <<>>, <<>>, {})
            /\ UNCHANGED <<prog, stack, params, ghost>>
       ELSE /\ TermCall(Counted(stack), "H5close")
            /\ UNCHANGED <<proc, params>>

\* `curr_atclose = curr_atclose->next` and H5FL_FREE on a node that is
\* already free: the crash; CbReturn is the outcome that reads stale nodes.
CbReturnFreed ==
  /\ Running("cb")
  /\ Len(stack) > 1 /\ stack[2].op = "H5_term_library" /\ stack[2].pc = "atclose"
  /\ NodeFreed
  /\ proc' = "crashed"
  /\ obs' = Obs("H5_term_library", "undefined", <<>>, <<>>, {})
  /\ UNCHANGED <<prog, stack, params, ghost>>

InitReenter ==
  /\ InitState
  /\ environ \in [HDF5_DISABLE_VERSION_CHECK : {NULL}, HDF5_DEBUG : {NULL}]
  /\ build \in [NDEBUG : {TRUE}, H5_VERS_RELEASE : {1}, vers_info_ok : {TRUE}]
  /\ subsys \in [busy : {{}}, may_fail : {{}}, oom : {FALSE},
                 stuck : {{}}, early : {{}}, auto_func : {{TRUE}}]

NextReenter ==
  \/ H5open
  \/ H5openResume
  \/ H5atclose
  \/ H5atcloseResume
  \/ H5close
  \/ CbH5close
  \/ InitPkg
  \/ InitDebug
  \/ TermCallback
  \/ CbReturn
  \/ CbReturnFreed
  \/ TermHook
  \/ TermWhile
  \/ TermFinish
  \/ TermClear
  \/ TermReturn

SpecReenter == InitReenter /\ [][NextReenter]_vars

\* C14: a call of H5_term_library made while a termination is in progress
\* (H5_TERM_GLOBAL set) or after it has completed (H5_INIT_GLOBAL clear) is a
\* no-op: it returns at once and changes nothing of the library's state.
C14_Original ==
  [][(obs'.ev \in {"term_begin", "term_noop"} /\ (H5_libterm_g \/ ~H5_libinit_g))
       => (obs'.ev = "term_noop" /\ UNCHANGED prog)]_vars

\* A callback of the atclose loop is running.
InCallback == \E i \in DOMAIN stack : stack[i].op = "cb"

\* What holds at each position of a termination in progress.
C15_Positions ==
  /\ InCallback => (H5_libterm_g /\ sweeplog = <<>> /\ nsweeps = 0)
  /\ \A i \in TermFrames :
       /\ H5_libinit_g
       /\ H5_libterm_g <=> stack[i].pc # "closed"
       /\ stack[i].pc = "atclose" => (sweeplog = <<>> /\ nsweeps = 0)
       /\ stack[i].pc \in {"sweep", "report", "flags", "closed"}
            => (H5_atclose_head = <<>> /\ ~InCallback /\ nsweeps >= 1)
       /\ stack[i].pc \in {"flags", "closed"} => H5_debug_g.open_stream = <<>>
  /\ obs.ev = "term_done" => (~H5_libterm_g /\ ~H5_libinit_g /\ TermFrames = {})

\* What each step of a termination finds and leaves.
C15_Steps ==
  /\ obs'.ev = "term_begin" => (~H5_libterm_g /\ H5_libterm_g' /\ cblog' = <<>> /\ sweeplog' = <<>>)
  /\ obs'.ev = "callback" => (H5_libterm_g /\ sweeplog = <<>> /\ nsweeps = 0)
  /\ obs'.ev = "term_package"
       => (H5_libterm_g /\ H5_atclose_head = <<>> /\ ~InCallback /\ UNCHANGED <<H5_debug_g, fds>>)
  /\ obs'.ev = "term_streams"
       => /\ Top.pc = "report"
          /\ H5_debug_g'.open_stream = <<>>
          /\ fds' = fds \ StreamFds(H5_debug_g.open_stream)
          /\ H5_libterm_g' /\ H5_libinit_g'
  /\ obs'.ev = "term_clear"
       => (obs.ev = "term_streams" /\ H5_libterm_g /\ ~H5_libterm_g' /\ H5_libinit_g')
  /\ obs'.ev = "term_done" => (obs.ev = "term_clear" /\ ~H5_libterm_g' /\ ~H5_libinit_g')
  /\ (TermFrames # {} /\ (H5_debug_g' # H5_debug_g \/ fds' # fds)) => obs'.ev = "term_streams"

\* C15: within one termination the steps occur in this order: the
\* terminating flag is set, then all atclose callbacks run, then the sweeps
\* over the shutdown hooks, then the debug streams are closed, then the
\* terminating and initialized flags are cleared; no callback runs after any
\* hook has run.
C15_Order == [](C15_Positions) /\ [][C15_Steps]_vars

\* The flags are about to be cleared after two callbacks, a sweep and the
\* closing of the stream on descriptor 3.
C15_Witness ==
  /\ \E i \in TermFrames : stack[i].pc = "flags"
  /\ Len(cblog) = 2
  /\ Len(sweeplog) >= 1
  /\ environ.HDF5_DEBUG # NULL /\ 3 \notin fds
  /\ H5_libterm_g /\ H5_libinit_g

(***************************************************************************)
(* Initialization with any one subsystem that may fail to initialize.      *)
(***************************************************************************)
InitInit ==
  /\ InitState
  /\ environ \in [HDF5_DISABLE_VERSION_CHECK : {NULL}, HDF5_DEBUG : DebugStrings]
  /\ build \in [NDEBUG : {TRUE}, H5_VERS_RELEASE : {1}, vers_info_ok : {TRUE}]
  /\ subsys \in [busy : {{}},
                 may_fail : {{}} \cup {{InitOrder[i]} : i \in DOMAIN InitOrder},
                 oom : {FALSE},
                 stuck : {{}}, early : {{}}, auto_func : {{TRUE}}]

NextInit ==
  \/ H5open
  \/ H5openResume
  \/ H5close
  \/ InitPkg
  \/ InitDebug
  \/ TermHook
  \/ TermWhile
  \/ TermFinish
  \/ TermClear
  \/ TermReturn

SpecInit == InitInit /\ [][NextInit]_vars

\* The order the specification gives: event sets, file drivers, VOL phase
\* 1, property lists phase 1, links, object headers, free-space manager,
\* dataspaces, datatypes, property lists phase 2, VOL phase 2.
C16_Order ==
  <<"E", "FD", "VL_phase1", "P_phase1", "L", "O", "FS", "S", "T", "P_phase2", "VL_phase2">>

C16_States ==
  /\ IsPrefix(initlog, C16_Order)
  /\ obs.ev = "init_done" => (initlog = C16_Order /\ obs.ret = <<SUCCEED>>)
  /\ obs.ev = "init_failed"
       => /\ obs.ret = <<FAIL>>
          /\ initlog # <<>> /\ initlog[Len(initlog)] \in subsys.may_fail
          /\ H5_libinit_g /\ ~H5_libterm_g
          /\ H5_debug_g = DebugReset
          /\ atexit_list = <<"H5_term_library">>
          /\ ~InitInProgress
          /\ stack # <<>> /\ Top.op = "H5open" /\ Top.back /\ Top.rv = FAIL

C16_Steps ==
  /\ obs'.ev \in {"init_pkg", "init_failed"}
       => /\ obs.ev \in {"init_begin", "init_pkg"}
          /\ Len(initlog) < Len(C16_Order)
          /\ initlog' = Append(initlog, C16_Order[Len(initlog) + 1])
          /\ UNCHANGED H5_debug_g
  /\ obs'.ev = "init_done" => (obs.ev = "init_pkg" /\ initlog = C16_Order)

\* C16: the first initialization runs the subsystem initializers in the
\* fixed order E, FD, VL phase 1, P phase 1, L, O, FS, S, T, P phase 2, VL
\* phase 2, each only after all earlier ones succeeded; when one fails the
\* call returns failure, no later initializer runs, no debug configuration
\* is applied, and what the earlier ones did is not rolled back.
C16_InitOrder == [](C16_States) /\ [][C16_Steps]_vars

\* The datatype initializer has just failed, after eight others succeeded.
C16_Witness ==
  /\ obs.ev = "init_failed" /\ Len(initlog) = 9 /\ initlog[9] = "T"
  /\ H5_libinit_g /\ ncycles = 0
  /\ environ.HDF5_DEBUG # NULL

C17_Steps ==
  /\ H5_dont_atexit_g => H5_dont_atexit_g'
  /\ obs'.op = "H5dont_atexit"
       => IF H5_dont_atexit_g
          THEN obs'.ret = <<FAIL>> /\ UNCHANGED <<prog, stack, proc, params, ghost>>
          ELSE obs'.ret = <<SUCCEED>> /\ H5_dont_atexit_g'

\* C17: H5dont_atexit succeeds only when the opt-out flag is not yet set, and
\* then sets it; once the flag is set, by H5dont_atexit or by an
\* initialization that installed the exit hook, no operation clears it, and
\* every later H5dont_atexit call returns failure and changes no state.
C17_OptOut == [][C17_Steps]_vars

\* H5dont_atexit has just failed because an initialization installed the
\* exit hook, and the library has been closed since.
C17_Witness ==
  /\ obs.op = "H5dont_atexit" /\ obs.ret = <<FAIL>>
  /\ atexit_list = <<"H5_term_library">>
  /\ ncycles = 1 /\ ~H5_libinit_g
  /\ H5_dont_atexit_g

(***************************************************************************)
(* Registration with an allocator that may fail and a subsystem that may   *)
(* fail to initialize.                                                     *)
(***************************************************************************)
InitAtclose ==
  /\ InitState
  /\ environ \in [HDF5_DISABLE_VERSION_CHECK : {NULL}, HDF5_DEBUG : {NULL}]
  /\ build \in [NDEBUG : {TRUE}, H5_VERS_RELEASE : {1}, vers_info_ok : {TRUE}]
  /\ subsys \in [busy : {{}}, may_fail : {{}, {"T"}}, oom : BOOLEAN,
                 stuck : {{}}, early : {{}}, auto_func : {{TRUE}}]

NextAtclose ==
  \/ H5open
  \/ H5openResume
  \/ H5atclose
  \/ H5atcloseResume
  \/ H5close
  \/ InitPkg
  \/ InitDebug
  \/ TermCallback
  \/ CbReturn
  \/ TermHook
  \/ TermWhile
  \/ TermFinish
  \/ TermClear
  \/ TermReturn

SpecAtclose == InitAtclose /\ [][NextAtclose]_vars

\* The step is a return of H5atclose.
AtcloseReturns == obs'.op = "H5atclose" /\ obs'.ret # <<>>

\* What every return of H5atclose does, whatever made it fail.
C18_Effect ==
  /\ obs'.ret = <<FAIL>> => UNCHANGED <<prog, ghost>>
  /\ obs'.ret = <<SUCCEED>>
       => /\ obs'.arg # <<>> /\ obs'.arg[1] # NULL
          /\ H5_atclose_head' # <<>>
          /\ H5_atclose_head'[1].func = obs'.arg[1]
          /\ H5_atclose_head'[1].ctx = obs'.arg[2]
          /\ Tail(H5_atclose_head') = H5_atclose_head
  /\ (obs'.arg # <<>> /\ (obs'.arg[1] = NULL \/ ~obs'.arg[3])) => obs'.ret = <<FAIL>>

\* C18 as stated: H5atclose with a null callback or a failed node allocation
\* returns failure and leaves the registry as it was, fails in no other
\* case, and on success the new entry is at the head.
C18_Original ==
  [][AtcloseReturns
       => /\ C18_Effect
          /\ obs'.ret = <<FAIL>>
               => (obs'.arg # <<>> /\ (obs'.arg[1] = NULL \/ ~obs'.arg[3]))]_vars

\* C18, amended: the same, with one more case of failure: the library
\* initialization that the call triggered on entry has failed.
C18_AtcloseFails ==
  [][AtcloseReturns
       => /\ C18_Effect
          /\ obs'.ret = <<FAIL>>
               => \/ obs'.arg # <<>> /\ (obs'.arg[1] = NULL \/ ~obs'.arg[3])
                  \/ obs'.arg = <<>> /\ obs.ev = "init_failed"]_vars

\* H5atclose has failed for want of memory with one entry registered, which
\* is still the whole registry.
C18_Witness ==
  /\ obs.op = "H5atclose" /\ obs.ret = <<FAIL>>
  /\ obs.arg # <<>> /\ obs.arg[1] # NULL /\ ~obs.arg[3]
  /\ Len(H5_atclose_head) = 1 /\ reglog = H5_atclose_head

(***************************************************************************)
(* The debug mask: initialization under several HDF5_DEBUG strings.        *)
(***************************************************************************)
DebugInputs ==
  {<<"-", "a", "l", "l", " ", "t", "r", "a", "c", "e", " ", "t", "t", "o", "p">>,
   <<"t", "r", "a", "c", "e">>,
   <<"-", "t", "r", "a", "c", "e">>,
   <<"t", "r", "a", "c", "e", " ", "-", "t", "r", "a", "c", "e">>,
   <<"-", "t", "r", "a", "c", "e", " ", "t", "r", "a", "c", "e">>,
   <<"a", "l", "l", " ", "-", "t">>,
   <<"3", " ", "a", "l", "l", " ", "t", "t", "i", "m", "e", "s">>,
   <<"+", "a", "l", "l", " ", "-", "t", "t", "o", "p">>,
   <<"t", "t", "o", "p", " ", "-", "a", "l", "l">>}

InitMask ==
  /\ InitState
  /\ environ \in [HDF5_DISABLE_VERSION_CHECK : {NULL}, HDF5_DEBUG : DebugInputs]
  /\ build \in [NDEBUG : {TRUE}, H5_VERS_RELEASE : {1}, vers_info_ok : {TRUE}]
  /\ subsys \in [busy : {{}}, may_fail : {{}}, oom : {FALSE},
                 stuck : {{}}, early : {{}}, auto_func : {{TRUE}}]

NextMask ==
  \/ H5open
  \/ H5openResume
  \/ H5close
  \/ InitPkg
  \/ InitDebug
  \/ TermHook
  \/ TermWhile
  \/ TermFinish
  \/ TermClear
  \/ TermReturn

SpecMask == InitMask /\ [][NextMask]_vars

RECURSIVE Plussed(_)
\* The string with a '+' put before every name that has no sign.
Plussed(s) ==
  IF s = <<>> THEN <<>>
  ELSE IF s[1] \in {"-", "+"}
  THEN LET i == AlphaRun(Tail(s))
       IN  SubSeq(s, 1, i + 1) \o Plussed(SubSeq(s, i + 2, Len(s)))
  ELSE IF isalpha(s[1])
  THEN LET i == AlphaRun(s)
       IN  <<"+">> \o SubSeq(s, 1, i) \o Plussed(SubSeq(s, i + 1, Len(s)))
  ELSE <<s[1]>> \o Plussed(Tail(s))

\* H5_debug_g as H5_init_library leaves it when HDF5_DEBUG is s.
MaskOf(s) ==
  H5__debug_mask(s, H5__debug_mask(<<"-", "a", "l", "l">>, DebugReset, fds, TRUE, ncycles).dbg,
                 fds, TRUE, ncycles).dbg

\* C19: H5__debug_mask applied to "-all trace ttop" leaves every subsystem's
\* stream cleared, tracing on the current stream (standard error) and the
\* top-level-only flag set; tokens are applied left to right, and a token
\* without a sign is treated as one with '+'.
C19_DebugMask ==
  obs.ev = "init_done" =>
    /\ environ.HDF5_DEBUG = <<"-", "a", "l", "l", " ", "t", "r", "a", "c", "e", " ", "t", "t", "o", "p">>
         => /\ \A i \in 1..H5_NPKGS : H5_debug_g.pkg[i].stream = NoStream
            /\ H5_debug_g.trace = StdErr
            /\ H5_debug_g.ttop /\ ~H5_debug_g.ttimes
            /\ H5_debug_g.open_stream = <<>>
    /\ environ.HDF5_DEBUG = <<"t", "r", "a", "c", "e", " ", "-", "t", "r", "a", "c", "e">> => H5_debug_g.trace = NoStream
    /\ environ.HDF5_DEBUG = <<"-", "t", "r", "a", "c", "e", " ", "t", "r", "a", "c", "e">> => H5_debug_g.trace = StdErr
    /\ environ.HDF5_DEBUG = <<"a", "l", "l", " ", "-", "t">>
         => \A i \in 1..H5_NPKGS :
              H5_debug_g.pkg[i].stream = IF PkgNames[i] = <<"t">> THEN NoStream ELSE StdErr
    /\ H5_debug_g = MaskOf(Plussed(environ.HDF5_DEBUG))

\* The library has been initialized with HDF5_DEBUG="-all trace ttop".
C19_Witness ==
  /\ obs.ev = "init_done"
  /\ environ.HDF5_DEBUG = <<"-", "a", "l", "l", " ", "t", "r", "a", "c", "e", " ", "t", "t", "o", "p">>
  /\ H5_debug_g.trace = StdErr /\ H5_debug_g.ttop
  /\ H5_libinit_g

(***************************************************************************)
(* H5is_library_terminating, called by the application, by an atclose      *)
(* callback, or by a subsystem's term_package during a sweep.              *)
(***************************************************************************)
\* A variant that reports the initialized flag.
TermFlagInit == H5_libinit_g

\* `*is_terminating = H5_TERM_GLOBAL`
TermFlag == H5_libterm_g

\* ptr: the argument; a null one trips assert() in a debug build and gives
\* FAIL otherwise.
H5is_library_terminating ==
  /\ \/ MayCall
     \/ Running("H5_term_library") /\ Top.pc = "sweep"
  /\ \E ptr \in {"is_terminating", NULL} :
       IF ptr = NULL
       THEN IF ~build.NDEBUG
            THEN /\ proc' = "aborted"
                 /\ obs' = Obs("H5is_library_terminating", "abort", <<>>, <<>>, {})
                 /\ UNCHANGED stack
            ELSE /\ obs' = Obs("H5is_library_terminating", "return", <<FAIL>>, <<>>, {})
                 /\ stack' = Counted(stack)
                 /\ UNCHANGED proc
       ELSE /\ obs' = [Obs("H5is_library_terminating", "return", <<SUCCEED>>, <<>>, {})
                       EXCEPT !.arg = <<TermFlag>>]
            /\ stack' = Counted(stack)
            /\ UNCHANGED proc
  /\ UNCHANGED <<prog, params, ghost>>

NextQuery ==
  \/ H5open
  \/ H5openResume
  \/ H5atclose
  \/ H5atcloseResume
  \/ H5close
  \/ H5is_library_terminating
  \/ InitPkg
  \/ InitDebug
  \/ TermCallback
  \/ CbReturn
  \/ TermHook
  \/ TermWhile
  \/ TermFinish
  \/ TermClear
  \/ TermReturn

SpecQuery == InitCap /\ [][NextQuery]_vars

\* C20: H5is_library_terminating reports true exactly when it is called
\* between the start and the end of a termination, from an atclose callback
\* or from a term_package, and false at every other time, including after a
\* termination that did not converge.
C20_Terminating ==
  (obs.op = "H5is_library_terminating" /\ obs.ret = <<SUCCEED>>)
    => /\ obs.arg[1] = (TermFrames # {})
       /\ (stack = <<>> /\ unconverged) => obs.arg[1] = FALSE

\* The application is told "not terminating" after a termination that left
\* the sweep loop with pending work.
C20_Witness ==
  /\ obs.op = "H5is_library_terminating" /\ obs.ret = <<SUCCEED>>
  /\ obs.arg = <<FALSE>>
  /\ unconverged /\ ncycles = 1 /\ stack = <<>>

\* The phases of a sweep as the `if (pending == 0)` tests of the code cut
\* it: ES; L and the six "top" hooks; F; P; the six "bottom" hooks; AC, Z,
\* FD, VL; then PL, E, I, SL, FL and CX each on its own.
GatePhases ==
  <<1, 2, 2, 2, 2, 2, 2, 2, 3, 4, 5, 5, 5, 5, 5, 5, 6, 6, 6, 6, 7, 8, 9, 10, 11, 12>>

\* The sweep of frame i has made all the term_package calls it will make.
SweepOver(i) ==
  \/ stack[i].pc = "report"
  \/ stack[i].pc = "sweep" /\ Resolve(stack[i].pos, stack[i].pending) > NHooks

\* The names of the term_package calls of the sweep so far.
Invoked == {sweeplog[k][1] : k \in DOMAIN sweeplog}

\* C21 as stated: in every sweep of a termination each subsystem's
\* term_package is invoked, even when another subsystem reports pending work.
C21_Original == \A i \in TermFrames : SweepOver(i) => Invoked = HookNames

\* C21, amended: a subsystem that reports pending work does not keep the
\* rest of its own phase from being processed, but it does keep every later
\* phase out of that sweep: a term_package is invoked in a sweep exactly
\* when every term_package of an earlier phase invoked in it returned 0.
C21_Containment ==
  /\ GatedBy(GatePhases)
  /\ \A i \in TermFrames :
       SweepOver(i) =>
         \A p \in 1..NHooks :
           (\A k \in DOMAIN sweeplog :
              GatePhases[HookIndex(sweeplog[k][1])] < GatePhases[p] => sweeplog[k][2] = 0)
             => Hooks[p].name \in Invoked

\* A sweep is over in which L reported pending work: the six "top" hooks
\* were still invoked, and nothing after them.
C21_Witness ==
  /\ \E i \in TermFrames : SweepOver(i)
  /\ Len(sweeplog) = 8
  /\ sweeplog[2] = <<"L", 1>>
  /\ sweeplog[8][1] = "T_top"

(***************************************************************************)
(* H5_init_library called from inside a subsystem's init (by way of any    *)
(* entry point that ensures initialization).                               *)
(***************************************************************************)
\* The call made while the init at Top.pos is running: the test at the top
\* of H5_init_library decides.
InitNested ==
  /\ Running("H5_init_library") /\ Top.pc = "pkg"
  /\ IF AlreadyInit
     THEN /\ obs' = Obs("H5_init_library", "init_noop", <<SUCCEED>>, <<>>, {})
          /\ UNCHANGED <<prog, stack, proc, params, ghost>>
     ELSE InitBegin(stack, "H5_init_library")

NextNested ==
  \/ H5open
  \/ H5openResume
  \/ H5close
  \/ InitPkg
  \/ InitNested
  \/ InitDebug
  \/ TermHook
  \/ TermWhile
  \/ TermFinish
  \/ TermClear
  \/ TermReturn

SpecNested == Init /\ [][NextNested]_vars

\* The frames of H5_init_library on the stack.
InitFrames == {i \in DOMAIN stack : stack[i].op = "H5_init_library"}

\* C22: the initialized flag is set before any subsystem init runs, so a
\* call of H5_init_library made from inside a subsystem init returns success
\* at once and starts no second initialization: no subsystem init is invoked
\* twice within one initialization.
C22_NoReinit ==
  /\ [](/\ Cardinality(InitFrames) <= 1
        /\ InitFrames # {} => H5_libinit_g
        /\ IsPrefix(initlog, InitOrder))
  /\ [][/\ (obs'.op = "H5_init_library" /\ InitFrames # {})
              => /\ obs'.ev \in {"init_noop", "init_pkg", "init_failed", "init_done"}
                 /\ obs'.ev = "init_noop"
                      => (obs'.ret = <<SUCCEED>> /\ UNCHANGED <<prog, stack, ghost>>)
        /\ obs'.ev = "init_begin" => InitFrames = {}]_vars

\* The init of the sixth subsystem has called H5_init_library and got
\* success back.
C22_Witness ==
  /\ obs.op = "H5_init_library" /\ obs.ev = "init_noop" /\ obs.ret = <<SUCCEED>>
  /\ InitFrames # {} /\ Len(initlog) = 5
  /\ H5_libinit_g /\ ~H5_libterm_g

\* C23: in every reachable state terminating implies initialized:
\* terminating is set only when initialized is true, and it is cleared
\* before initialized is cleared.
C23_TermImpliesInit ==
  /\ [](H5_libterm_g => H5_libinit_g)
  /\ [][/\ (~H5_libterm_g /\ H5_libterm_g') => (H5_libinit_g /\ H5_libinit_g')
        /\ (H5_libinit_g /\ ~H5_libinit_g') => (~H5_libterm_g /\ ~H5_libterm_g')
        /\ (H5_libterm_g /\ ~H5_libterm_g') => (H5_libinit_g /\ H5_libinit_g')]_vars

\* Between the two assignments that end a termination: terminating is
\* already clear, initialized is still set.
C23_Witness ==
  /\ \E i \in TermFrames : stack[i].pc = "closed"
  /\ ~H5_libterm_g /\ H5_libinit_g
  /\ Len(cblog) >= 1

\* The term_package calls of the sweep before the k-th all returned 0 and
\* include those of every subsystem in names.
ClearedBefore(k, names) ==
  /\ \A j \in 1..(k - 1) : sweeplog[j][2] = 0
  /\ names \subseteq {sweeplog[j][1] : j \in 1..(k - 1)}

TopHooks == {"A_top", "D_top", "G_top", "M_top", "S_top", "T_top"}
BottomHooks == {"A", "D", "G", "M", "S", "T"}

\* C24: within a sweep F's term_package is invoked only if ES, L and the
\* six "top" hooks returned 0 in that sweep, P's only if F also returned 0,
\* and the six "bottom" hooks only if P also returned 0.
C24_FilesGate ==
  \A k \in DOMAIN sweeplog :
    /\ sweeplog[k][1] = "F" => ClearedBefore(k, {"ES", "L"} \cup TopHooks)
    /\ sweeplog[k][1] = "P" => ClearedBefore(k, {"ES", "L", "F"} \cup TopHooks)
    /\ sweeplog[k][1] \in BottomHooks
         => /\ ClearedBefore(HookIndex("A"), {"ES", "L", "F", "P"} \cup TopHooks)
            /\ \A j \in 1..(k - 1) : sweeplog[j][1] = Hooks[j].name

\* The bottom of the dataspaces is being shut down in a third sweep, after
\* the bottom of the attributes reported pending work in this sweep.
C24_Witness ==
  /\ nsweeps = 3
  /\ Len(sweeplog) = 15
  /\ sweeplog[15][1] = "S"
  /\ sweeplog[11] = <<"A", 1>>
  /\ sweeplog[10] = <<"P", 0>>

\* C25: within a sweep PL's term_package is invoked only if AC, Z, FD and
\* VL all returned 0 in that sweep, and E, I, SL, FL, CX are invoked in that
\* order, each only if every term_package invoked before it in the sweep
\* returned 0; CX is invoked only in a sweep in which every other subsystem
\* returned 0.
C25_LowLevelGate ==
  \A k \in DOMAIN sweeplog :
    LET name == sweeplog[k][1] IN
    /\ name = "PL" => ClearedBefore(k, {"AC", "Z", "FD", "VL"})
    /\ name \in {"PL", "E", "I", "SL", "FL", "CX"}
         => /\ \A j \in 1..(k - 1) : sweeplog[j] = <<Hooks[j].name, 0>>
            /\ k = HookIndex(name)
    /\ name = "E" => ClearedBefore(k, {"PL"})
    /\ name = "I" => ClearedBefore(k, {"PL", "E"})
    /\ name = "SL" => ClearedBefore(k, {"PL", "E", "I"})
    /\ name = "FL" => ClearedBefore(k, {"PL", "E", "I", "SL"})
    /\ name = "CX" => ClearedBefore(k, HookNames \ {"CX"})

\* A second sweep ends with the skip lists reporting pending work: FL and
\* CX were not invoked.
C25_Witness ==
  /\ nsweeps = 2
  /\ \E i \in TermFrames : SweepOver(i)
  /\ Len(sweeplog) = 24
  /\ sweeplog[24] = <<"SL", 1>>
  /\ sweeplog[21] = <<"PL", 0>>

\* The shutdown engine when only the low-level subsystems may report
\* pending work.
LowLevelHooks == {"AC", "Z", "FD", "VL", "PL", "E", "I", "SL", "FL", "CX"}

InitLow ==
  /\ InitState
  /\ environ \in [HDF5_DISABLE_VERSION_CHECK : {NULL}, HDF5_DEBUG : {NULL}]
  /\ build \in [NDEBUG : {TRUE}, H5_VERS_RELEASE : {1}, vers_info_ok : {TRUE}]
  /\ subsys \in [busy : {LowLevelHooks}, may_fail : {{}}, oom : {FALSE}, stuck : {{}},
                 early : {{}}, auto_func : {{FALSE}}]

SpecLow == InitLow /\ [][NextSweep]_vars

(***************************************************************************)
(* The report of a termination that does not converge: subsystems that     *)
(* always have work left, and subsystems that have work in the first sweep *)
(* only.                                                                   *)
(***************************************************************************)
InitReport ==
  /\ InitState
  /\ environ \in [HDF5_DISABLE_VERSION_CHECK : {NULL}, HDF5_DEBUG : {NULL}]
  /\ build \in [NDEBUG : BOOLEAN, H5_VERS_RELEASE : {1}, vers_info_ok : {TRUE}]
  /\ subsys \in [busy : {{}}, may_fail : {{}}, oom : {FALSE},
                 stuck : {{}, {"ES"}, {"F"},
                          {"L", "A_top", "D_top", "G_top", "M_top", "S_top", "T_top"},
                          {"AC", "Z", "FD", "VL"}},
                 early : {{"L", "A_top"}}, auto_func : {BOOLEAN}]

SpecReport == InitReport /\ [][NextSweep]_vars

\* The step prints the message of a termination that did not converge.
Reported == obs.ev \in {"term_streams", "term_abort"} /\ obs.out # <<>>

\* The names in the list printed after the message.
Listed == {obs.out[k] : k \in 2..Len(obs.out)}

\* The subsystems that returned nonzero in the last sweep.
StillPending == {sweeplog[k][1] : k \in {j \in DOMAIN sweeplog : sweeplog[j][2] # 0}}

C26_Steps ==
  /\ (obs'.ev = "term_package" /\ Top.efunc)
       => LET e == sweeplog'[Len(sweeplog')]
              f == stack'[1]
          IN  /\ e[2] = 0 => (f.loop = Top.loop /\ f.at = Top.at)
              /\ (e[2] # 0 /\ Top.at + 8 < LoopSize)
                   => (f.loop = Append(Top.loop, e[1]) /\ f.at > Top.at)
              /\ (e[2] # 0 /\ Top.at + 8 >= LoopSize)
                   => (f.loop \in {Top.loop, Append(Top.loop, "...")})
  /\ obs'.ev = "while" => (stack'[1].loop = Top.loop /\ stack'[1].at = Top.at)
  /\ (obs'.ev \in {"term_streams", "term_abort"} /\ Top.pending # 0 /\ Top.efunc)
       => obs'.out = <<"HDF5: infinite loop closing library">> \o Top.loop

C27_Original ==
  /\ ~build.NDEBUG
       => /\ \A i \in TermFrames :
               stack[i].pc \in {"flags", "closed"} => stack[i].pending = 0
          /\ ~unconverged
  /\ build.NDEBUG
       => /\ proc # "aborted"
          /\ Reported => \A i \in TermFrames : stack[i].efunc
          /\ (unconverged /\ obs.ev = "term_done") => (~H5_libinit_g /\ ~H5_libterm_g)

(***************************************************************************)
(* The debug streams: HDF5_DEBUG strings that name descriptors, open ones  *)
(* (1, 3) and one that is not open (9), with and without memory for the    *)
(* open-stream record.                                                     *)
(***************************************************************************)
StreamInputs ==
  {<<"9", " ", "a", "l", "l">>,
   <<"3", " ", "a", "l", "l">>,
   <<"a", "l", "l", " ", "9", " ", "t", "r", "a", "c", "e">>,
   <<"3", " ", "t", "r", "a", "c", "e", " ", "9", " ", "t", "t", "o", "p">>,
   <<"3", " ", "3", " ", "a", "l", "l">>,
   <<"1", " ", "a", "l", "l">>}

InitStreams ==
  /\ InitState
  /\ environ \in [HDF5_DISABLE_VERSION_CHECK : {NULL}, HDF5_DEBUG : StreamInputs]
  /\ build \in [NDEBUG : {TRUE}, H5_VERS_RELEASE : {1}, vers_info_ok : {TRUE}]
  /\ subsys \in [busy : {{}}, may_fail : {{}}, oom : BOOLEAN,
                 stuck : {{}}, early : {{}}, auto_func : {{TRUE}}]

SpecStreams == InitStreams /\ [][NextMask]_vars

RECURSIVE Unopened(_, _)
\* The string with every number that names a descriptor outside `open`
\* replaced by a blank.
Unopened(s, open) ==
  IF s = <<>> THEN <<>>
  ELSE IF isdigit(s[1])
  THEN LET n == strtol(s)
       IN  (IF n.val \in open THEN SubSeq(s, 1, n.len) ELSE <<" ">>)
             \o Unopened(SubSeq(s, n.len + 1, Len(s)), open)
  ELSE IF isalpha(s[1])
  THEN LET i == AlphaRun(s)
       IN  SubSeq(s, 1, i) \o Unopened(SubSeq(s, i + 1, Len(s)), open)
  ELSE <<s[1]>> \o Unopened(Tail(s), open)

\* C28: a number of HDF5_DEBUG whose descriptor cannot be opened leaves the
\* current stream as it was and adds no open-stream record: the
\* initialization leaves H5_debug_g as it would without that number.
C28_Original ==
  [][(obs'.ev = "init_done" /\ environ.HDF5_DEBUG # NULL)
       => \E alloc_ok \in AllocOutcomes :
            H5_debug_g' =
              H5__debug_mask(Unopened(environ.HDF5_DEBUG, fds),
                             H5__debug_mask(<<"-", "a", "l", "l">>, H5_debug_g, fds, TRUE, ncycles).dbg,
                             fds, alloc_ok, ncycles).dbg]_vars

(***************************************************************************)
(* Tracing: HDF5_DEBUG strings that end in a trace, ttop or ttimes token,  *)
(* after nothing, after a number, or after other tracing tokens.           *)
(***************************************************************************)
TracePrefixes ==
  {<<>>,
   <<"3", " ">>,
   <<"-", "t", "r", "a", "c", "e", " ">>,
   <<"t", "t", "o", "p", " ", "t", "t", "i", "m", "e", "s", " ">>,
   <<"9", " ">>}

TraceTokens ==
  {<<"t", "r", "a", "c", "e">>,
   <<"+", "t", "r", "a", "c", "e">>,
   <<"-", "t", "r", "a", "c", "e">>,
   <<"t", "t", "o", "p">>,
   <<"+", "t", "t", "o", "p">>,
   <<"-", "t", "t", "o", "p">>,
   <<"t", "t", "i", "m", "e", "s">>,
   <<"+", "t", "t", "i", "m", "e", "s">>,
   <<"-", "t", "t", "i", "m", "e", "s">>}

InitTrace ==
  /\ InitState
  /\ environ \in [HDF5_DISABLE_VERSION_CHECK : {NULL},
                  HDF5_DEBUG : {p \o t : p \in TracePrefixes, t \in TraceTokens}]
  /\ build \in [NDEBUG : {TRUE}, H5_VERS_RELEASE : {1}, vers_info_ok : {TRUE}]
  /\ subsys \in [busy : {{}}, may_fail : {{}}, oom : {FALSE},
                 stuck : {{}}, early : {{}}, auto_func : {{TRUE}}]

SpecTrace == InitTrace /\ [][NextMask]_vars

\* The string s as what precedes its last token, and that token.
LastToken(s) ==
  CHOOSE pt \in TracePrefixes \X TraceTokens : pt[1] \o pt[2] = s

\* A token without its sign.
Unsigned(t) == IF t[1] \in {"-", "+"} THEN Tail(t) ELSE t

\* What the last token of HDF5_DEBUG does to the tracing fields, given the
\* state in which the tokens before it leave the function.
C29_Steps ==
  obs'.ev = "init_done"
    => LET pt    == LastToken(environ.HDF5_DEBUG)
           minus == pt[2][1] = "-"
           name  == Unsigned(pt[2])
           pre   == H5__debug_mask(pt[1],
                      H5__debug_mask(<<"-", "a", "l", "l">>, H5_debug_g, fds, TRUE, ncycles).dbg,
                      fds, TRUE, ncycles)
           now   == H5_debug_g'
       IN  /\ name = <<"t", "r", "a", "c", "e">>
                => /\ now.trace = (IF minus THEN NoStream ELSE pre.stream)
                   /\ now.ttop = pre.dbg.ttop /\ now.ttimes = pre.dbg.ttimes
           /\ name = <<"t", "t", "o", "p">>
                => /\ now.trace = pre.stream
                   /\ now.ttop = ~minus /\ now.ttimes = pre.dbg.ttimes
           /\ name = <<"t", "t", "i", "m", "e", "s">>
                => /\ now.trace = pre.stream
                   /\ now.ttimes = ~minus /\ now.ttop = pre.dbg.ttop
           /\ now.pkg = pre.dbg.pkg /\ now.open_stream = pre.dbg.open_stream

\* C29: a `trace` token sets the trace stream to the current stream unless
\* its sign is '-', which clears it; a `ttop` or `ttimes` token sets the
\* trace stream to the current stream whatever its sign, and sets its flag
\* unless the sign is '-': `-ttop` and `-ttimes` leave tracing on.
C29_Trace == [][C29_Steps]_vars

\* HDF5_DEBUG was "-ttop": tracing goes to stderr, the flag is clear.
C29_Witness ==
  /\ obs.ev = "init_done"
  /\ environ.HDF5_DEBUG = <<"-", "t", "t", "o", "p">>
  /\ H5_debug_g.trace = StdErr /\ ~H5_debug_g.ttop

\* What holds of the open-stream list in every state: it is empty when
\* H5_term_library has returned, and a stream in it is one that fdopen gave
\* and that has not been closed.
C30_States ==
  /\ obs.ev = "term_done" => H5_debug_g.open_stream = <<>>
  /\ \A i \in 1..Len(H5_debug_g.open_stream) :
       /\ H5_debug_g.open_stream[i] # NoStream
       /\ H5_debug_g.open_stream[i].fd \in fds

\* The steps that change the list or close a descriptor: the termination
\* closes every stream of the list and empties it; the debug mask records
\* streams of descriptors that were open, or closes the one stream it could
\* not record.
C30_Steps ==
  /\ H5_debug_g'.open_stream # H5_debug_g.open_stream
       => \/ /\ obs'.ev = "term_streams"
             /\ H5_debug_g'.open_stream = <<>>
             /\ fds' = fds \ StreamFds(H5_debug_g.open_stream)
          \/ /\ obs'.ev = "init_done"
             /\ H5_debug_g.open_stream = <<>>
             /\ StreamFds(H5_debug_g'.open_stream) \subseteq fds
             /\ fds' = fds
  /\ fds' # fds
       => \/ /\ obs'.ev = "term_streams"
             /\ fds' = fds \ StreamFds(H5_debug_g.open_stream)
          \/ /\ obs'.ev = "init_done"
             /\ FALSE \in AllocOutcomes
             /\ H5_debug_g'.open_stream = <<>>

C31_States ==
  /\ Len(atexit_list) <= 1
  /\ atexit_list # <<>> => H5_dont_atexit_g

\* The only step that registers the hook is the start of the first
\* initialization, with the opt-out flag clear; it sets the flag. The start
\* of a later initialization leaves the list alone.
C31_Steps ==
  /\ atexit_list' # atexit_list
       => /\ obs'.ev = "init_begin" /\ ncycles = 0
          /\ ~H5_dont_atexit_g /\ H5_dont_atexit_g'
          /\ atexit_list = <<>> /\ atexit_list' = <<"H5_term_library">>
  /\ (obs'.ev = "init_begin" /\ ~H5_dont_atexit_g)
       => (ncycles = 0 /\ atexit_list' = <<"H5_term_library">>)
  /\ (obs'.ev = "init_begin" /\ (ncycles > 0 \/ H5_dont_atexit_g))
       => UNCHANGED atexit_list

\* C31: over any sequence of initializations, terminations and
\* H5dont_atexit calls H5_term_library is registered with atexit at most
\* once: by the first initialization, and only if the opt-out flag was not
\* set before it; a re-initialization after a termination does not register
\* it again.
C31_AtexitOnce == [](C31_States) /\ [][C31_Steps]_vars

\* The library has just been initialized again after a termination, and
\* the list still holds the one hook of the first initialization.
C31_Witness ==
  /\ obs.ev = "init_begin" /\ ncycles = 1
  /\ atexit_list = <<"H5_term_library">>
  /\ H5_libinit_g

\* An initialization has ended, in success or in failure, and no termination
\* has completed since: no H5_init_library is running, the log of subsystem
\* inits is not empty, and a flag is still set.
InitOver ==
  /\ InitFrames = {}
  /\ initlog # <<>>
  /\ H5_libinit_g \/ H5_libterm_g

C32_Steps ==
  /\ obs'.ev = "init_failed" => (H5_libinit_g' /\ InitOver')
  /\ (H5_libinit_g /\ ~H5_libinit_g') => obs'.ev = "term_done"
  /\ InitOver
       => /\ initlog' = initlog
          /\ InitFrames' = {}
          /\ (obs'.op = "H5open" /\ obs'.ev # "resume")
               => /\ obs'.ev = "init_noop" /\ obs'.ret = <<SUCCEED>>
                  /\ UNCHANGED <<prog, ghost>>
          /\ InitOver' \/ obs'.ev = "term_done"

\* C32: when a subsystem init fails the initialized flag stays set; until a
\* termination has cleared the flags every later call that would initialize
\* returns success at once and runs no subsystem init, so the subsystems
\* after the failed one stay uninitialized.
C32_FailedStays == [][C32_Steps]_vars

\* H5open has just returned success without initializing anything, after an
\* initialization that failed in its second subsystem.
C32_Witness ==
  /\ obs.op = "H5open" /\ obs.ev = "init_noop" /\ obs.ret = <<SUCCEED>>
  /\ initlog = <<InitOrder[1], InitOrder[2]>>
  /\ H5_libinit_g /\ ~H5_libterm_g /\ ncycles = 0

\* The log of a sweep in which every hook was invoked once, in the order of
\* the code, and returned 0.
FullQuietSweep == [k \in 1..NHooks |-> <<Hooks[k].name, 0>>]

\* C33: whenever H5_term_library leaves its sweep loop with nothing
\* pending, the last sweep invoked every term_package exactly once, in the
\* order ES, L, the six tops, F, P, the six bottoms, AC, Z, FD, VL, PL, E,
\* I, SL, FL, CX, and each of them returned 0.
C33_QuietSweep ==
  \A i \in TermFrames :
    (stack[i].pc = "report" /\ stack[i].pending = 0)
      => /\ sweeplog = FullQuietSweep
         /\ Len(sweeplog) = 26
         /\ <<sweeplog[1][1], sweeplog[2][1], sweeplog[9][1], sweeplog[10][1],
              sweeplog[17][1], sweeplog[21][1], sweeplog[26][1]>>
              = <<"ES", "L", "F", "P", "AC", "PL", "CX">>

\* The loop was left with nothing pending after a first sweep in which
\* something was pending and a second in which nothing was.
C33_Witness ==
  \E i \in TermFrames :
    /\ stack[i].pc = "report" /\ stack[i].pending = 0
    /\ nsweeps = 2 /\ npending = 1
    /\ sweeplog = FullQuietSweep

(***************************************************************************)
(* The shutdown engine with the progress the code has: H5_term_library     *)
(* runs in one thread, a term_package call returns, and the loop test is   *)
(* evaluated after the body.                                               *)
(***************************************************************************)
SpecSweepFair ==
  /\ InitSweep
  /\ [][NextSweep]_vars
  /\ WF_vars(TermHook)
  /\ WF_vars(TermWhile)

\* A sweep is running.
InSweep == \E i \in TermFrames : stack[i].pc = "sweep"

\* The counter counts the repetitions: it is one less than the number of
\* the sweep that is running, and neither passes the limit.
C34_Counter ==
  \A i \in TermFrames :
    stack[i].pc = "sweep"
      => /\ stack[i].ntries = nsweeps - 1
         /\ stack[i].ntries <= MaxTries
         /\ nsweeps <= MaxTries + 1

\* A sweep is repeated only when the counter, before its increment, is
\* below the limit.
C34_Steps ==
  (obs'.ev = "while" /\ nsweeps' # nsweeps)
    => /\ Top.pending # 0 /\ Top.ntries < MaxTries
       /\ nsweeps' = nsweeps + 1
       /\ stack'[1].ntries = Top.ntries + 1

\* C34: the sweep loop of H5_term_library always exits: whatever the
\* term_package calls return, no termination runs more than MaxTries + 1
\* sweeps (101), the counter being tested before it is incremented, after
\* the first sweep has run; a termination that is sweeping comes to the end
\* of its loop.
C34_LoopExits ==
  /\ [](C34_Counter)
  /\ [][C34_Steps]_vars
  /\ (InSweep ~> ~InSweep)

\* The last sweep the counter allows is running: sweep number 101 with
\* the counter at 100.
C34_Witness ==
  \E i \in TermFrames :
    /\ stack[i].pc = "sweep" /\ stack[i].ntries = MaxTries
    /\ nsweeps = MaxTries + 1 /\ sweeplog # <<>>

\* The atclose loop in every state: the nodes it has invoked and those it
\* still holds are the nodes registered before the termination began, last
\* registered first, whatever the callbacks have registered since; once the
\* loop is over exactly those were invoked, and the registry is empty.
C35_States ==
  /\ \A i \in TermFrames :
       IF stack[i].pc = "atclose"
       THEN Reverse(reglog) = cblog \o (IF InCallback THEN Tail(stack[i].curr) ELSE stack[i].curr)
       ELSE cblog = Reverse(reglog) /\ H5_atclose_head = <<>>
  /\ obs.ev = "term_done" => H5_atclose_head = <<>>
  /\ \A k \in DOMAIN cblog : cblog[k].reg = ncycles

\* A registration made by a running callback puts its node at the head of
\* the registry and leaves the loop's position and what it will invoke as
\* they were; the loop invokes the node at its own position.
C35_Steps ==
  /\ (obs'.op = "H5atclose" /\ InCallback /\ obs'.ret = <<SUCCEED>>)
       => /\ H5_libterm_g
          /\ Len(H5_atclose_head') = Len(H5_atclose_head) + 1
          /\ H5_atclose_head'[1].func = obs'.arg[1]
          /\ Tail(H5_atclose_head') = H5_atclose_head
          /\ Len(stack) > 1 /\ stack'[2] = stack[2]
          /\ UNCHANGED <<reglog, cblog>>
  /\ obs'.ev = "callback"
       => /\ cblog' = Append(cblog, Top.curr[1])
          /\ Len(cblog') <= Len(reglog)

\* C35: an atclose callback registered through H5atclose by a callback that
\* runs in the atclose loop of a termination is not invoked by that
\* termination and is not in the registry when the termination has
\* returned: it is never invoked.
C35_LateDropped == [](C35_States) /\ [][C35_Steps]_vars

\* A running callback has just registered f2; only f1 was registered before
\* the termination began, and f1 is the callback that is running.
C35_Witness ==
  /\ obs.op = "H5atclose" /\ obs.ret = <<SUCCEED>> /\ InCallback
  /\ Len(H5_atclose_head) = 2 /\ H5_atclose_head[1].func = "f2"
  /\ Len(reglog) = 1 /\ reglog[1].func = "f1"
  /\ cblog = reglog
====
